---- MODULE Spec2Model ----
(***************************************************************************)
(* Model of the status page of amai-status-frontend: the page state that   *)
(* feeds one monitor's heartbeat bar (StatusPage.tsx) and the bar's window *)
(* animator (HeartbeatBarComponent in StatusComponents.tsx).               *)
(*                                                                         *)
(* Conventions.                                                            *)
(*  - One monitor, MonitorName, is modelled; state.monitors is a sequence  *)
(*    of length 0 or 1.                                                    *)
(*  - Null (-1) stands for JavaScript null and undefined; every real       *)
(*    number of the model is >= 0.                                         *)
(*  - response_time and avg_response_time are kept in milliseconds, so the *)
(*    code's  r.response_time * 1000  is the stored number.                *)
(*  - A page render and the effects of the bar that follow it are one      *)
(*    step; requestAnimationFrame callbacks and timers are pending         *)
(*    entries that fire in steps of their own, each kind in the order it   *)
(*    was queued (the trim timers all have the same 400 ms delay).         *)
(*  - An entry of rafQueue or timeouts has live = TRUE while the bar       *)
(*    instance that queued it is mounted. transitionTimeoutRef.current is  *)
(*    the held flag of the timers: the ref holds the handle of the timer   *)
(*    whose entry has held = TRUE; when no entry has, the ref is null or   *)
(*    holds the handle of a timer that has fired or was cleared, and       *)
(*    clearTimeout does nothing with either.                               *)
(*  - growthBy is not program state: it records what the bar's last data    *)
(*    pass saw, the increase of the series over lastDataLenRef when the    *)
(*    growth effect ran and 0 when the replace effect ran, for the         *)
(*    properties that speak of growth by exactly one item.                 *)
(***************************************************************************)
EXTENDS Integers, Sequences, FiniteSets, TLC

VARIABLES
    monitors,               \* state.monitors
    aggregatedHeartbeat,    \* state.aggregatedHeartbeat: key -> bucket sequence
    heartbeatIntervals,     \* state.heartbeatIntervals: monitor name -> interval
    heartbeatItemCount,     \* state.heartbeatItemCount (base capacity)
    displayItems,           \* bar: useState displayItems (the window)
    translateX,             \* bar: useState translateX (the offset)
    nodeWidth,              \* bar: useState nodeWidth
    lastDataLenRef,         \* bar: lastDataLenRef.current
    measureTimer,           \* bar: the 50 ms measurement timer is pending
    rafQueue,               \* pending requestAnimationFrame callbacks, FIFO
    timeouts,               \* pending 400 ms trim timers, in the order they fire
    growthBy,               \* observer: the increase the bar's last data pass saw
    degradedThreshold,      \* state.degradedThreshold (ms)
    degradedPercentageThreshold,  \* state.degradedPercentageThreshold
    inflight,               \* heartbeat requests sent and not yet settled
    overwrote,              \* observer: the last cache write replaced another sequence
    input,                  \* the arguments of a function applied on its own
    output,                 \* its result <<v>>, << >> before the function has run
    hoveredMonitorIndex,    \* state.hoveredMonitorIndex: << >> (null) or <<record>>
    selectedInterval,       \* selector: useState selectedInterval, << >> unmounted
    lastPointerEvent,       \* observer: the last pointer event on the bar, with the
                            \* item it gave to onHover (enter) or cleared (leave)
    loadingProgress,        \* state.loadingProgress
    showLoadingScreen,      \* state.showLoadingScreen
    backendUnreachable,     \* state.backendUnreachable
    nextUpdate,             \* state.nextUpdate (seconds)
    updateInterval,         \* state.updateInterval (seconds)
    overallStatus,          \* state.overallStatus
    progressTrackerRef,     \* progressTrackerRef.current
    initializeRef,          \* initializeRef.current
    initializeApp,          \* where initializeApp stands: the await it is at
    updateIntervalId,       \* poll timer: whole seconds since it was armed
    countdownInterval,      \* countdown timer: whole seconds since it was armed
    lastTimer               \* observer: the timer callback that ran last

pageVars == <<monitors, aggregatedHeartbeat, heartbeatIntervals, heartbeatItemCount>>
barVars  == <<displayItems, translateX, nodeWidth, lastDataLenRef, measureTimer>>
vars     == <<monitors, aggregatedHeartbeat, heartbeatIntervals, heartbeatItemCount,
              displayItems, translateX, nodeWidth, lastDataLenRef, measureTimer,
              rafQueue, timeouts, growthBy,
              degradedThreshold, degradedPercentageThreshold, inflight, overwrote,
              input, output, hoveredMonitorIndex, selectedInterval, lastPointerEvent,
              loadingProgress, showLoadingScreen, backendUnreachable, nextUpdate,
              updateInterval, overallStatus, progressTrackerRef, initializeRef,
              initializeApp, updateIntervalId, countdownInterval, lastTimer>>
\* the page's loading, polling and overall-status state
lifeVars == <<loadingProgress, showLoadingScreen, backendUnreachable, nextUpdate,
              updateInterval, overallStatus, progressTrackerRef, initializeRef,
              initializeApp, updateIntervalId, countdownInterval, lastTimer>>
\* what the steps of the page with one bar leave alone
auxVars  == <<degradedThreshold, degradedPercentageThreshold, inflight, overwrote,
              input, output, hoveredMonitorIndex, selectedInterval, lastPointerEvent,
              lifeVars>>

----------------------------------------------------------------------------
(* Bounds of the model.                                                    *)

MaxHist == 11            \* longest history a status response carries
MaxNodes == 12           \* longest bucket sequence a heartbeat response carries
MaxPending == 2          \* most animation-frame callbacks / trim timers pending
MaxInflight == 2         \* most requests in flight at a time
MaxLoaded == 2           \* longest history / bucket sequence of the responses
                         \* followed while requests are in flight
MaxResponseTime == 4     \* largest response time of a classified sample
MaxThreshold == 3        \* largest degraded threshold tried
MaxCount == 2            \* largest down_count / degraded_count of a bucket
MaxPercentage == 11      \* largest issue_percentage and percentage threshold
MaxViewportWidth == 1500 \* largest window.innerWidth tried
MaxPing == 5             \* largest response time of a hovered item, in 1/16 s
MaxUptimeHist == 80      \* longest history an uptime percentage is computed of
NarrowViewport == 240    \* window.innerWidth of the narrow layout
WideViewport == 260      \* window.innerWidth of the wide layout

Null == 0 - 1
NowDate == 0             \* the value of  new Date()  (real timestamps are >= 1)
MonitorName == "m1"
Intervals == {"all", "hour", "day", "week"}
HistLens == {0} \cup ((MaxHist - 1) .. MaxHist)
NodeLens == (MaxNodes - 1) .. MaxNodes
ViewportWidths == {NarrowViewport, WideViewport}
\* the intervals the backend answers heartbeat requests for (the others fail)
ServedIntervals == {"all", "hour"}

Min(a, b) == IF a <= b THEN a ELSE b
Max(a, b) == IF a >= b THEN a ELSE b

----------------------------------------------------------------------------
(* Data the backend serves.                                                *)

SampleAt(k) ==
    [timestamp |-> k,
     is_up |-> (k % 5 # 0),
     response_time |-> CASE k % 3 = 0 -> Null
                         [] k % 3 = 1 -> 150
                         [] OTHER     -> 450]

History(n) == [k \in 1 .. n |-> SampleAt(k)]

Monitor(n) == [name |-> MonitorName, history |-> History(n)]

IntervalBase(i) ==
    CASE i = "all" -> 100 [] i = "hour" -> 200 [] i = "day" -> 300 [] OTHER -> 400

NodeAt(i, k) ==
    [timestamp |-> IntervalBase(i) + k,
     count |-> 1 + (k % 3),
     avg_response_time |-> IF k % 3 = 0 THEN Null ELSE 100 * (k % 3),
     degraded_count |-> k % 2,
     down_count |-> IF k % 4 = 0 THEN 1 ELSE 0,
     issue_percentage |-> 10 * (k % 3)]

Nodes(i, n) == [k \in 1 .. n |-> NodeAt(i, k)]

StatusResponses == {<<>>} \cup {<<Monitor(n)>> : n \in HistLens}

----------------------------------------------------------------------------
(* Page: the series handed to a bar (StatusPage.tsx, per-render).          *)

DEFAULT_DEGRADED_THRESHOLD == 200
DEFAULT_DEGRADED_PERCENTAGE_THRESHOLD == 10

\* array.slice(-n): the last n items; slice(-0) is slice(0), the whole array
SliceLast(s, n) ==
    IF n <= 0 \/ n >= Len(s) THEN s ELSE SubSeq(s, Len(s) - n + 1, Len(s))

\* array.slice(0, n): the first n items
SliceFirst(s, n) == SubSeq(s, 1, Min(n, Len(s)))

\* state.heartbeatIntervals[monitor.name] || "all"
IntervalOf(ints, name) == IF name \in DOMAIN ints THEN ints[name] ELSE "all"

\* state.aggregatedHeartbeat[key] || []   with key = `${name}:${interval}`
NodesOf(agg, name, interval) ==
    IF <<name, interval>> \in DOMAIN agg THEN agg[<<name, interval>>] ELSE <<>>

\* a classification that tests the response time before is_up, to compare
\* against classifySample
classifySampleResponseFirst(r, degThreshold) ==
    IF r.response_time # Null /\ r.response_time # 0
            /\ r.response_time > degThreshold THEN "degraded"
    ELSE IF ~r.is_up THEN "down"
    ELSE "up"

\* the history.map callback of the fallback path
classifySample(r, degThreshold) ==
    IF ~r.is_up THEN "down"
    ELSE IF r.response_time # Null /\ r.response_time # 0
            /\ r.response_time > degThreshold THEN "degraded"
    ELSE "up"

\* a classification with the count-based degraded test at every interval, to
\* compare against classifyNode
classifyNodeCountBased(node, interval, degPctThreshold) ==
    IF node.down_count > 0 THEN "down"
    ELSE IF node.degraded_count > 0 THEN "degraded" ELSE "up"

\* the nodes.map callback of the bucket path
classifyNode(node, interval, degPctThreshold) ==
    IF node.down_count > 0 THEN "down"
    ELSE IF interval = "all"
         THEN (IF node.degraded_count > 0 THEN "degraded" ELSE "up")
         ELSE (IF node.issue_percentage > degPctThreshold
               THEN "degraded" ELSE "up")

getHeartbeatData(monitor, ints, agg, itemCount, degThreshold, degPctThreshold) ==
    LET interval == IntervalOf(ints, monitor.name)
        nodes    == NodesOf(agg, monitor.name, interval)
    IN  IF Len(nodes) = 0
        THEN IF Len(monitor.history) = 0
             THEN [k \in 1 .. itemCount |-> "none"]
             ELSE LET h == SliceLast(monitor.history, itemCount)
                  IN  [k \in 1 .. Len(h) |->
                          classifySample(h[k], degThreshold)]
        ELSE [k \in 1 .. Len(nodes) |->
                 classifyNode(nodes[k], interval, degPctThreshold)]

getHeartbeatTimestamps(monitor, ints, agg, itemCount) ==
    LET interval == IntervalOf(ints, monitor.name)
        nodes    == NodesOf(agg, monitor.name, interval)
    IN  IF Len(nodes) = 0
        THEN LET h == SliceLast(monitor.history, itemCount)
             IN  [k \in 1 .. Len(h) |-> h[k].timestamp]
        ELSE [k \in 1 .. Len(nodes) |-> nodes[k].timestamp]

getHeartbeatResponseTimes(monitor, ints, agg, itemCount) ==
    LET interval == IntervalOf(ints, monitor.name)
        nodes    == NodesOf(agg, monitor.name, interval)
    IN  IF Len(nodes) = 0
        THEN LET h == SliceLast(monitor.history, itemCount)
             IN  [k \in 1 .. Len(h) |-> h[k].response_time]
        ELSE [k \in 1 .. Len(nodes) |-> nodes[k].avg_response_time]

\* typeLabel is a formatted date; only its format and its date are kept
getHeartbeatMetadata(monitor, ints, agg, itemCount) ==
    LET interval == IntervalOf(ints, monitor.name)
        nodes    == NodesOf(agg, monitor.name, interval)
    IN  IF Len(nodes) = 0
        THEN LET h == SliceFirst(monitor.history, itemCount)
             IN  [k \in 1 .. Len(h) |->
                    [count |-> 1, avgResponseTime |-> Null,
                     typeLabel |-> [format |-> "time_range.all", date |-> NowDate],
                     degradedCount |-> 0, downCount |-> 0]]
        ELSE [k \in 1 .. Len(nodes) |->
                 [count |-> nodes[k].count,
                  avgResponseTime |-> nodes[k].avg_response_time,
                  typeLabel |-> [format |-> interval, date |-> nodes[k].timestamp],
                  degradedCount |-> nodes[k].degraded_count,
                  downCount |-> nodes[k].down_count]]

\* viewportWidth * 0.175 in double arithmetic. The double nearest to 0.175 is
\* 0.175 - 0.4 * 2^-55, so the exact product is below 7w/40 by 0.4w * 2^-55
\* and is then rounded to the nearest double (ties to even). That matters to
\* the floor only when 7w/160 is a whole number: w = 160j, 7w/40 = 28j, the
\* product is 28j - j * 2^-49, and with 2^e <= 28j < 2^(e+1) the doubles below
\* 28j are 2^(e-52) apart: the product rounds to the double below 28j when
\* j * 2^-49 > 2^(e-53), that is 16j > 2^e (w = 1440: 251.99999999999997).
ProductRoundsBelow(w) ==
    /\ w > 0 /\ w % 160 = 0 /\ w * 175 < 800000
    /\ \E e \in 4 .. 9 :
          /\ 2^e <= 28 * (w \div 160) /\ 28 * (w \div 160) < 2^(e + 1)
          /\ 16 * (w \div 160) > 2^e

\* Math.max(10, Math.floor(Math.min(viewportWidth * 0.175, 800) / 4))
calculateHeartbeatItems(viewportWidth) ==
    LET exact == Min(viewportWidth * 175, 800000) \div 4000
    IN  Max(10, IF ProductRoundsBelow(viewportWidth) THEN exact - 1 ELSE exact)

\* a write that keeps nothing of the previous cache (the updater without
\* `...prev`), to compare against CacheWrite
CacheWriteOnly(prev, key, data) == [k \in {key} |-> data]

\* a write that appends to the key's previous entry instead of replacing it,
\* to compare against CacheWrite
CacheWriteMerge(prev, key, data) ==
    [k \in DOMAIN prev \cup {key} |->
        IF k = key THEN (IF key \in DOMAIN prev THEN prev[key] \o data ELSE data)
        ELSE prev[k]]

\* the updater of setAggregatedHeartbeat: (prev) => ({ ...prev, [key]: data })
CacheWrite(prev, key, data) ==
    [k \in DOMAIN prev \cup {key} |-> IF k = key THEN data ELSE prev[k]]

\* The props of the monitor's HeartbeatBar in a render of the page
BarProps(mons, agg, ints, itemCount, degThreshold, degPctThreshold) ==
    LET monitor == mons[1]
    IN  [data          |-> getHeartbeatData(monitor, ints, agg, itemCount,
                                            degThreshold, degPctThreshold),
         timestamps    |-> getHeartbeatTimestamps(monitor, ints, agg, itemCount),
         responseTimes |-> getHeartbeatResponseTimes(monitor, ints, agg, itemCount),
         metadata      |-> getHeartbeatMetadata(monitor, ints, agg, itemCount),
         maxItems      |-> itemCount,
         interval      |-> IntervalOf(ints, monitor.name)]

----------------------------------------------------------------------------
(* Bar: HeartbeatBarComponent (StatusComponents.tsx).                      *)

\* a capacity scaled by the rounded factors 0.8, 0.667 and 0.571 instead of
\* divided by 1.25, 1.5 and 1.75, to compare against getEffectiveMaxItems
getEffectiveMaxItemsByFactor(baseMax, currentInterval) ==
    CASE currentInterval = "hour" -> (baseMax * 800) \div 1000
      [] currentInterval = "day"  -> (baseMax * 667) \div 1000
      [] currentInterval = "week" -> (baseMax * 571) \div 1000
      [] OTHER -> baseMax

\* Math.floor(baseMax / 1.25), / 1.5, / 1.75 (exact in floating point)
getEffectiveMaxItems(baseMax, currentInterval) ==
    CASE currentInterval = "all"  -> baseMax
      [] currentInterval = "hour" -> (baseMax * 4) \div 5
      [] currentInterval = "day"  -> (baseMax * 2) \div 3
      [] currentInterval = "week" -> (baseMax * 4) \div 7
      [] OTHER -> baseMax

effectiveMaxItems(props) == getEffectiveMaxItems(props.maxItems, props.interval)

UndefinedLabel == [format |-> "undefined", date |-> NowDate]

\* One display item: element j (1-based) of data.slice(-effectiveMaxItems),
\* read from index startIdx + j of the parallel arrays.
BarItem(props, startIdx, j, id) ==
    LET idx == startIdx + j
        meta == IF idx <= Len(props.metadata) THEN props.metadata[idx]
                ELSE [count |-> Null, avgResponseTime |-> Null,
                      typeLabel |-> UndefinedLabel,
                      degradedCount |-> Null, downCount |-> Null]
        rt == IF idx <= Len(props.responseTimes) THEN props.responseTimes[idx]
              ELSE Null
    IN  [status          |-> props.data[idx],
         id              |-> id,
         timestamp       |-> IF idx <= Len(props.timestamps)
                             THEN props.timestamps[idx] ELSE NowDate,
         responseTime    |-> IF rt = 0 THEN Null ELSE rt,
         count           |-> meta.count,
         avgResponseTime |-> meta.avgResponseTime,
         typeLabel       |-> meta.typeLabel,
         degradedCount   |-> meta.degradedCount,
         downCount       |-> meta.downCount]

\* a window that is not cut to the capacity (data.map instead of
\* data.slice(-effectiveMaxItems).map), to compare against BarItems
BarItemsUnbounded(props) ==
    [j \in 1 .. Len(props.data) |-> BarItem(props, 0, j, j - 1)]

\* slicedData.map(...) of both effects: ids are `item-${startIdx + i}`
BarItems(props) ==
    LET eff      == effectiveMaxItems(props)
        sliced   == SliceLast(props.data, eff)
        startIdx == Max(0, Len(props.data) - eff)
    IN  [j \in 1 .. Len(sliced) |-> BarItem(props, startIdx, j, startIdx + j - 1)]

\* firstNodeRef.current as calculateNodeWidth reads it: the offsetWidth of the
\* element the ref is attached to, or Null. The render attaches containerRef
\* and slidingRef only; firstNodeRef is given to no element.
firstNodeRefCurrent(items) == Null

\* calculateNodeWidth: setNodeWidth(width + gap) when the ref holds an element
calculateNodeWidth(items, width) ==
    IF firstNodeRefCurrent(items) # Null
    THEN firstNodeRefCurrent(items) + 2
    ELSE width

\* the growth effect's test; the replace effect runs on its negation
IsGrowth(currentLen, lastLen) == currentLen > lastLen

\* if (transitionTimeoutRef.current) clearTimeout(transitionTimeoutRef.current)
ClearTimeout(pending) == SelectSeq(pending, LAMBDA t : ~(t.live /\ t.held))

\* transitionTimeoutRef.current = setTimeout(..., 400): the new timer is queued
\* and the ref of its instance holds its handle, no longer an older one
SetTimeout(pending, live) ==
    Append([k \in 1 .. Len(pending) |->
               IF pending[k].live = live
               THEN [pending[k] EXCEPT !.held = FALSE] ELSE pending[k]],
           [live |-> live, held |-> TRUE])

\* a callback that arms the trim timer only after a measurement (without the
\* `else if (containerRef.current)` branch), to compare against RafArmsTimer
RafArmsTimerMeasuredOnly(width, containerAttached) == width > 0

\* whether the animation-frame callback arms the 400 ms timer:
\* nodeWidth > 0, else containerRef.current (set while the bar is mounted)
RafArmsTimer(width, containerAttached) == width > 0 \/ containerAttached

\* the offset the animation-frame callback sets: -nodeWidth when it is > 0
RafTranslateX(width, current) == IF width > 0 THEN 0 - width ELSE current

\* a timer callback that drops the newest item (prev.slice(0, -1)), to compare
\* against TrimWindow
TrimWindowLast(prev) == IF Len(prev) = 0 THEN prev ELSE SubSeq(prev, 1, Len(prev) - 1)

\* the timer callback's  prev.slice(1)
TrimWindow(prev) == IF Len(prev) = 0 THEN prev ELSE Tail(prev)

Mounted == Len(monitors) > 0

\* The two effects of a bar render with new props; width is the nodeWidth of
\* that render.
BarEffects(props, width) ==
    LET currentLen == Len(props.data)
    IN  /\ displayItems' = BarItems(props)
        /\ measureTimer' = (measureTimer \/ Len(BarItems(props)) # Len(displayItems))
        /\ IF IsGrowth(currentLen, lastDataLenRef)
           THEN /\ Len(rafQueue) < MaxPending
                /\ timeouts' = ClearTimeout(timeouts)
                /\ rafQueue' = Append(rafQueue, [nodeWidth |-> width, live |-> TRUE])
                /\ lastDataLenRef' = currentLen
                /\ growthBy' = currentLen - lastDataLenRef
                /\ UNCHANGED translateX
           ELSE /\ translateX' = 0
                /\ growthBy' = 0
                /\ UNCHANGED <<lastDataLenRef, rafQueue, timeouts>>

\* First render of a bar: initial state, then its effects (the replace effect
\* runs, the measurement timer is armed).
BarMount(props) ==
    /\ displayItems' = BarItems(props)
    /\ translateX' = 0
    /\ nodeWidth' = 0
    /\ lastDataLenRef' = Len(props.data)
    /\ measureTimer' = TRUE
    /\ growthBy' = 0
    /\ UNCHANGED <<rafQueue, timeouts>>

\* The bar leaves the tree: the measurement effect's cleanup clears its timer;
\* the growth effect has no cleanup, so its callbacks stay pending (live FALSE:
\* their instance is gone, its refs are null, its setState calls do nothing).
BarUnmount ==
    /\ displayItems' = <<>>
    /\ translateX' = 0
    /\ nodeWidth' = 0
    /\ lastDataLenRef' = 0
    /\ measureTimer' = FALSE
    /\ growthBy' = 0
    /\ rafQueue' = [k \in 1 .. Len(rafQueue) |-> [rafQueue[k] EXCEPT !.live = FALSE]]
    /\ timeouts' = [k \in 1 .. Len(timeouts) |-> [live |-> FALSE, held |-> FALSE]]

\* A render of the page: the bar mounts, unmounts or re-renders with new
\* props (every render builds new data arrays, so the memo never holds).
PageRender(width) ==
    LET wasMounted == Mounted
        isMounted  == Len(monitors') > 0
    IN  IF isMounted
        THEN \E props \in {BarProps(monitors', aggregatedHeartbeat',
                                    heartbeatIntervals', heartbeatItemCount',
                                    degradedThreshold', degradedPercentageThreshold')} :
                IF wasMounted
                THEN nodeWidth' = width /\ BarEffects(props, width)
                ELSE BarMount(props)
        ELSE IF wasMounted THEN BarUnmount
        ELSE UNCHANGED <<displayItems, translateX, nodeWidth, lastDataLenRef,
                         measureTimer, rafQueue, timeouts, growthBy>>

----------------------------------------------------------------------------
(* Steps.                                                                  *)

\* the useState and useRef initial values of the loading screen, the polling
\* timers and the overall status; the effects of the first render have not run
DEFAULT_UPDATE_INTERVAL == 15

LifeInit ==
    /\ loadingProgress = 0
    /\ showLoadingScreen = TRUE
    /\ backendUnreachable = FALSE
    /\ nextUpdate = DEFAULT_UPDATE_INTERVAL
    /\ updateInterval = DEFAULT_UPDATE_INTERVAL
    /\ overallStatus = "up"
    /\ progressTrackerRef = [totalTasks |-> 0, completedTasks |-> 0]
    /\ initializeRef = FALSE
    /\ initializeApp = "not called"
    /\ updateIntervalId = Null
    /\ countdownInterval = Null
    /\ lastTimer = "none"

Init ==
    /\ monitors = <<>>
    /\ aggregatedHeartbeat = [k \in {} |-> <<>>]
    /\ heartbeatIntervals = [k \in {} |-> "all"]
    /\ heartbeatItemCount \in {calculateHeartbeatItems(w) : w \in ViewportWidths}
    /\ displayItems = <<>>
    /\ translateX = 0
    /\ nodeWidth = 0
    /\ lastDataLenRef = 0
    /\ measureTimer = FALSE
    /\ rafQueue = <<>>
    /\ timeouts = <<>>
    /\ growthBy = 0
    /\ degradedThreshold = DEFAULT_DEGRADED_THRESHOLD
    /\ degradedPercentageThreshold = DEFAULT_DEGRADED_PERCENTAGE_THRESHOLD
    /\ inflight = {}
    /\ overwrote = FALSE
    /\ input = <<>>
    /\ output = <<>>
    /\ hoveredMonitorIndex = <<>>
    /\ selectedInterval = <<>>
    /\ lastPointerEvent = [type |-> "none", item |-> <<>>]
    /\ LifeInit

\* fetchStatus / initializeApp: a status response arrives, setMonitors
FetchStatusResolved ==
    \E resp \in StatusResponses :
        /\ monitors' = resp
        /\ UNCHANGED <<aggregatedHeartbeat, heartbeatIntervals, heartbeatItemCount>>
        /\ UNCHANGED auxVars
        /\ PageRender(nodeWidth)

\* fetchAggregatedHeartbeat / preloadAllIntervals: a heartbeat response
\* arrives, setAggregatedHeartbeat replaces the entry of its key
FetchHeartbeatResolved ==
    \E i \in ServedIntervals, n \in NodeLens :
        /\ aggregatedHeartbeat' =
              CacheWrite(aggregatedHeartbeat, <<MonitorName, i>>, Nodes(i, n))
        /\ UNCHANGED <<monitors, heartbeatIntervals, heartbeatItemCount>>
        /\ UNCHANGED auxVars
        /\ PageRender(nodeWidth)

\* handleHeartbeatIntervalChange, from the monitor's interval selector
HandleHeartbeatIntervalChange ==
    \E i \in Intervals :
        /\ Mounted
        /\ heartbeatIntervals' =
              [k \in DOMAIN heartbeatIntervals \cup {MonitorName} |->
                  IF k = MonitorName THEN i ELSE heartbeatIntervals[k]]
        /\ UNCHANGED <<monitors, aggregatedHeartbeat, heartbeatItemCount>>
        /\ UNCHANGED auxVars
        /\ PageRender(nodeWidth)

\* handleTooltipMouseMove: setTooltipPos with a new object re-renders the page
HandleTooltipMouseMove ==
    /\ Mounted
    /\ UNCHANGED <<monitors, aggregatedHeartbeat, heartbeatIntervals, heartbeatItemCount>>
    /\ UNCHANGED auxVars
    /\ PageRender(nodeWidth)

\* window resize: the page's calculateHeartbeatItems and the bar's handleResize
\* both run; the page re-renders when the item count changed
Resize ==
    \E w \in ViewportWidths :
        LET width == IF Mounted THEN calculateNodeWidth(displayItems, nodeWidth)
                     ELSE nodeWidth
        IN  /\ heartbeatItemCount' = calculateHeartbeatItems(w)
            /\ UNCHANGED <<monitors, aggregatedHeartbeat, heartbeatIntervals>>
            /\ UNCHANGED auxVars
            /\ IF heartbeatItemCount' # heartbeatItemCount
               THEN PageRender(width)
               ELSE /\ nodeWidth' = width
                    /\ UNCHANGED <<displayItems, translateX, lastDataLenRef,
                                   measureTimer, rafQueue, timeouts, growthBy>>

\* the 50 ms timer of the measurement effect: calculateNodeWidth
MeasureTimerFire ==
    /\ measureTimer
    /\ measureTimer' = FALSE
    /\ nodeWidth' = calculateNodeWidth(displayItems, nodeWidth)
    /\ UNCHANGED <<monitors, aggregatedHeartbeat, heartbeatIntervals, heartbeatItemCount,
                   displayItems, translateX, lastDataLenRef, rafQueue, timeouts,
                   growthBy>>
    /\ UNCHANGED auxVars

\* the callback given to requestAnimationFrame by the growth effect
AnimationFrame ==
    /\ Len(rafQueue) > 0
    /\ LET r == Head(rafQueue)
       IN  /\ rafQueue' = Tail(rafQueue)
           /\ IF RafArmsTimer(r.nodeWidth, r.live)
              THEN /\ Len(timeouts) < MaxPending
                   /\ timeouts' = SetTimeout(timeouts, r.live)
                   /\ translateX' = IF r.live
                                    THEN RafTranslateX(r.nodeWidth, translateX)
                                    ELSE translateX
              ELSE UNCHANGED <<timeouts, translateX>>
    /\ UNCHANGED <<monitors, aggregatedHeartbeat, heartbeatIntervals, heartbeatItemCount,
                   displayItems, nodeWidth, lastDataLenRef, measureTimer, growthBy>>
    /\ UNCHANGED auxVars

\* the 400 ms timer callback: drop the head item, reset the offset
TransitionTimeoutFire ==
    /\ Len(timeouts) > 0
    /\ timeouts' = Tail(timeouts)
    /\ IF Head(timeouts).live
       THEN /\ displayItems' = TrimWindow(displayItems)
            /\ translateX' = 0
            /\ measureTimer' =
                  (measureTimer \/ Len(TrimWindow(displayItems)) # Len(displayItems))
       ELSE UNCHANGED <<displayItems, translateX, measureTimer>>
    /\ UNCHANGED <<monitors, aggregatedHeartbeat, heartbeatIntervals, heartbeatItemCount,
                   nodeWidth, lastDataLenRef, rafQueue, growthBy>>
    /\ UNCHANGED auxVars

Next ==
    \/ FetchStatusResolved
    \/ FetchHeartbeatResolved
    \/ HandleHeartbeatIntervalChange
    \/ HandleTooltipMouseMove
    \/ Resize
    \/ MeasureTimerFire
    \/ AnimationFrame
    \/ TransitionTimeoutFire

Spec == Init /\ [][Next]_vars

----------------------------------------------------------------------------
(* Requests in flight: the page state of two monitors while heartbeat,     *)
(* status and config requests are pending and settle in any order. The     *)
(* bars are not followed here; their variables keep their initial values.  *)

SecondMonitorName == "m2"
LoaderMonitorNames == {MonitorName, SecondMonitorName}

MonitorNamed(name, n) == [name |-> name, history |-> History(n)]

\* the monitors of a status response
LoaderMonitors ==
    <<MonitorNamed(MonitorName, MaxLoaded), MonitorNamed(SecondMonitorName, MaxLoaded - 1)>>

LoaderNodeLens == (MaxLoaded - 1) .. MaxLoaded

\* the heartbeat of response.data for a request: the buckets of that monitor
NodesFor(name, i, n) ==
    [k \in 1 .. n |->
        [NodeAt(i, k) EXCEPT
            !.timestamp = @ + (IF name = MonitorName THEN 0 ELSE 1000)]]

\* configuration of a config response; Null: the field is missing
ConfigResponses ==
    {[degraded_threshold |-> 300, degraded_percentage_threshold |-> 20],
     [degraded_threshold |-> Null, degraded_percentage_threshold |-> Null]}

HeartbeatRequests ==
    {[kind |-> "heartbeat", monitor |-> m, interval |-> i, n |-> n] :
        m \in LoaderMonitorNames, i \in ServedIntervals, n \in LoaderNodeLens}
StatusRequest == [kind |-> "status", monitor |-> "", interval |-> "", n |-> 0]
ConfigRequests ==
    {[kind |-> "config", monitor |-> "", interval |-> "", n |-> c.degraded_threshold] :
        c \in ConfigResponses}

\* const key = `${monitorName}:${interval}`
KeyOf(r) == <<r.monitor, r.interval>>
PayloadOf(r) == NodesFor(r.monitor, r.interval, r.n)

\* the write replaced a different, non-empty sequence of the same key
Overwrites(prev, key, data) ==
    key \in DOMAIN prev /\ Len(prev[key]) > 0 /\ prev[key] # data

\* the onDataUpdate callback given to the loader hook's preloadAllIntervals:
\* the cache write of the resolution cache
OnDataUpdate(prev, key, data) == CacheWrite(prev, key, data)

LoaderInit ==
    /\ Init
    /\ heartbeatItemCount = calculateHeartbeatItems(NarrowViewport)

\* what no step of a request changes
LoaderFrame ==
    UNCHANGED <<heartbeatIntervals, heartbeatItemCount, displayItems, translateX,
                nodeWidth, lastDataLenRef, measureTimer, rafQueue, timeouts,
                growthBy, input, output, hoveredMonitorIndex, selectedInterval,
                lastPointerEvent, lifeVars>>

\* axios.get is called: initializeApp / the polling timer (status), fetchConfig,
\* fetchAggregatedHeartbeat or one iteration of preloadAllIntervals' loops
SendRequest ==
    \E r \in HeartbeatRequests \cup {StatusRequest} \cup ConfigRequests :
        /\ Cardinality(inflight) < MaxInflight
        /\ r.kind = "heartbeat" =>
              \E j \in 1 .. Len(monitors) : monitors[j].name = r.monitor
        /\ inflight' = inflight \cup {r}
        /\ UNCHANGED <<monitors, aggregatedHeartbeat, degradedThreshold,
                       degradedPercentageThreshold, overwrote>>
        /\ LoaderFrame

\* fetchStatus: the response arrives, setMonitors
StatusFetchResolved ==
    /\ StatusRequest \in inflight
    /\ inflight' = inflight \ {StatusRequest}
    /\ monitors' = LoaderMonitors
    /\ UNCHANGED <<aggregatedHeartbeat, degradedThreshold,
                   degradedPercentageThreshold, overwrote>>
    /\ LoaderFrame

\* fetchConfig: the response arrives; a threshold is set when it is truthy,
\* a percentage threshold when it is not undefined
ConfigFetchResolved ==
    \E r \in inflight, c \in ConfigResponses :
        /\ r.kind = "config" /\ r.n = c.degraded_threshold
        /\ inflight' = inflight \ {r}
        /\ degradedThreshold' =
              IF c.degraded_threshold # Null /\ c.degraded_threshold # 0
              THEN c.degraded_threshold ELSE degradedThreshold
        /\ degradedPercentageThreshold' =
              IF c.degraded_percentage_threshold # Null
              THEN c.degraded_percentage_threshold ELSE degradedPercentageThreshold
        /\ UNCHANGED <<monitors, aggregatedHeartbeat, overwrote>>
        /\ LoaderFrame

\* fetchAggregatedHeartbeat / preloadAllIntervals: the response arrives
HeartbeatFetchResolved(r) ==
    /\ r.kind = "heartbeat"
    /\ inflight' = inflight \ {r}
    /\ aggregatedHeartbeat' = CacheWrite(aggregatedHeartbeat, KeyOf(r), PayloadOf(r))
    /\ overwrote' = Overwrites(aggregatedHeartbeat, KeyOf(r), PayloadOf(r))
    /\ UNCHANGED <<monitors, degradedThreshold, degradedPercentageThreshold>>
    /\ LoaderFrame

\* the catch blocks of the page's fetchStatus, fetchConfig,
\* fetchAggregatedHeartbeat and preloadAllIntervals: console.error only
FetchFailed(r) ==
    /\ inflight' = inflight \ {r}
    /\ UNCHANGED <<monitors, aggregatedHeartbeat, degradedThreshold,
                   degradedPercentageThreshold, overwrote>>
    /\ LoaderFrame

\* the loader hook: its fetchAggregatedHeartbeat catches the error and
\* returns [], and preloadAllIntervals hands that to onDataUpdate(key, data)
LoaderHeartbeatFetchFailed(r) ==
    /\ r.kind = "heartbeat"
    /\ inflight' = inflight \ {r}
    /\ aggregatedHeartbeat' = OnDataUpdate(aggregatedHeartbeat, KeyOf(r), <<>>)
    /\ overwrote' = Overwrites(aggregatedHeartbeat, KeyOf(r), <<>>)
    /\ UNCHANGED <<monitors, degradedThreshold, degradedPercentageThreshold>>
    /\ LoaderFrame

LoaderNext ==
    \/ SendRequest
    \/ StatusFetchResolved
    \/ ConfigFetchResolved
    \/ \E r \in inflight : HeartbeatFetchResolved(r)
    \/ \E r \in inflight : FetchFailed(r)
    \/ \E r \in inflight : LoaderHeartbeatFetchFailed(r)

LoaderSpec == LoaderInit /\ [][LoaderNext]_vars

----------------------------------------------------------------------------
(* The classifiers and the capacity formulas applied on their own: input   *)
(* holds the arguments, output the result once the function has run.       *)

\* getHeartbeatData of lib/utils/statusUtils.ts, per record. A history record's
\* is_up is a boolean (StatusRecord), so its `is_up === null` test never holds.
statusUtilsClassify(record, degThreshold) ==
    IF ~record.is_up THEN "down"
    ELSE IF record.response_time # Null /\ record.response_time # 0
            /\ record.response_time > degThreshold THEN "degraded"
    ELSE "up"

\* the largest base capacity: Math.min(..., 800) / 4
MaxBase == 800 \div 4

Languages == {"en", "ja", "ko"}

\* interval of a hovered-item record that carries none (undefined)
NoInterval == ""

\* t(language, key) of lib/utils/i18n for the two ping labels
t(language, key) ==
    CASE key = "heartbeat.avg_ping" -> "avg ping"
      [] key = "heartbeat.ping"     -> "ping"
      [] OTHER                      -> key

\* (x * 1000).toFixed(0) for a response time of x sixteenths of a second:
\* x / 16 and the product are exact in double precision, and toFixed takes the
\* larger integer of a tie (62.5 -> "63")
ToFixed0Ms(x) == (x * 125 + 1) \div 2

\* an issue test that ignores the interval, to compare against showIssues
showIssuesAnyInterval(h) ==
    (h.degradedCount # Null /\ h.degradedCount > 0)
        \/ (h.downCount # Null /\ h.downCount > 0)

\* computeTooltipData: showIssues (|| false)
showIssues(h) ==
    /\ h.interval # NoInterval
    /\ h.interval # "all"
    /\ \/ h.degradedCount # Null /\ h.degradedCount > 0
       \/ h.downCount # Null /\ h.downCount > 0

\* Tooltip.tsx: hasIssues
hasIssues(info) ==
    /\ info.interval # NoInterval
    /\ info.interval # "all"
    /\ \/ info.degradedCount # Null /\ info.degradedCount > 0
       \/ info.downCount # Null /\ info.downCount > 0

\* a ping text that prefers responseTime, to compare against pingText
pingTextResponseFirst(h, language) ==
    IF h.responseTime # Null
    THEN [label |-> t(language, "heartbeat.ping"),
          ms |-> <<ToFixed0Ms(h.responseTime)>>]
    ELSE IF h.avgResponseTime # Null
    THEN [label |-> t(language, "heartbeat.avg_ping"),
          ms |-> <<ToFixed0Ms(h.avgResponseTime)>>]
    ELSE [label |-> t(language, "heartbeat.ping"), ms |-> <<>>]

\* computeTooltipData: pingText, `${label}: ${ms}ms`; ms << >> is "N/A"
pingText(h, language) ==
    IF h.avgResponseTime # Null
    THEN [label |-> t(language, "heartbeat.avg_ping"),
          ms |-> <<ToFixed0Ms(h.avgResponseTime)>>]
    ELSE IF h.responseTime # Null
    THEN [label |-> t(language, "heartbeat.ping"),
          ms |-> <<ToFixed0Ms(h.responseTime)>>]
    ELSE [label |-> t(language, "heartbeat.ping"), ms |-> <<>>]

\* the tooltipPing element of the page's own tooltip
pageTooltipPing(h, language) ==
    IF h.avgResponseTime # Null
    THEN [label |-> t(language, "heartbeat.avg_ping"),
          ms |-> <<ToFixed0Ms(h.avgResponseTime)>>]
    ELSE IF h.responseTime # Null
    THEN [label |-> t(language, "heartbeat.ping"),
          ms |-> <<ToFixed0Ms(h.responseTime)>>]
    ELSE [label |-> t(language, "heartbeat.ping"), ms |-> <<>>]

\* getStatusLabel
getStatusLabel(status, language) ==
    IF status = "none" THEN "No Data" ELSE t(language, "status_indicator." \o status)

\* a composer that has no null test, to compare against computeTooltipData
computeTooltipDataOfAny(hoveredMonitor, language) ==
    <<[showIssues |-> FALSE, pingText |-> [label |-> t(language, "heartbeat.ping"),
                                         ms |-> <<>>]]>>

\* computeTooltipData: << >> is null. hoveredMonitor is << >> (null) or <<h>>.
computeTooltipData(hoveredMonitor, language) ==
    IF hoveredMonitor = <<>> THEN <<>>
    ELSE LET h == hoveredMonitor[1]
         IN  <<[timeDisplay     |-> IF h.typeLabel # UndefinedLabel THEN h.typeLabel
                                    ELSE [format |-> language, date |-> h.timestamp],
                statusLabel     |-> getStatusLabel(h.status, language),
                showIssues      |-> showIssues(h),
                degradedCount   |-> h.degradedCount,
                downCount       |-> h.downCount,
                pingText        |-> pingText(h, language),
                sampleCount     |-> h.count,
                showSampleCount |-> (IF h.count = Null THEN 0 ELSE h.count) > 1]>>

RECURSIVE Gcd(_, _)
Gcd(a, b) == IF b = 0 THEN a ELSE Gcd(b, a % b)

\* (upCount / length) * 100 * 10 in double arithmetic falls below a value
\* k + 0.5 that the exact quotient upCount * 1000 / length has. The quotient
\* is k + 0.5 only when upCount / length in lowest terms is p / q with q one of
\* 16, 80, 400, 2000; away from these ties the rounding error (below 2^-40)
\* cannot reach the next k + 0.5 (at least 1 / (2 * length) away). With q = 16
\* every step is exact; the p listed are those whose product rounds below the
\* tie (23 / 80: 0.2875 * 100 = 28.749999999999996, * 10 = 287.49999999999994).
\* Histories of fewer than 2000 samples.
ProductBelowTie(upCount, length) ==
    LET g == Gcd(upCount, length)
        p == upCount \div g
        q == length \div g
    IN  \/ q = 80 /\ p \in {23, 41, 51}
        \/ q = 400 /\ p \in {29, 57, 113, 201, 203, 207, 251, 253}

\* Math.round(x) of the exact quotient a / b: the larger integer of a tie
RoundHalfUp(a, b) == (2 * a + b) \div (2 * b)

\* getUptimePercentage, in tenths of a percent (the final / 10 is exact to
\* one decimal): Math.round((upCount / history.length) * 100 * 10)
getUptimePercentage(monitor) ==
    IF Len(monitor.history) = 0 THEN 1000
    ELSE LET upCount == Cardinality({k \in 1 .. Len(monitor.history) :
                                        monitor.history[k].is_up})
             length  == Len(monitor.history)
         IN  IF ProductBelowTie(upCount, length)
             THEN RoundHalfUp(upCount * 1000, length) - 1
             ELSE RoundHalfUp(upCount * 1000, length)

\* hours that leave out the factor 24 of the week window, to compare against
\* hoursNeeded
hoursNeededWeekInDays(interval) ==
    CASE interval = "hour" -> 96
      [] interval = "day"  -> 120 * 24
      [] interval = "week" -> 104 * 7
      [] interval = "all"  -> 30 * 24
      [] OTHER -> 720

\* fetchAggregatedHeartbeat: hoursNeeded
hoursNeeded(interval) ==
    CASE interval = "hour" -> 96
      [] interval = "day"  -> 120 * 24
      [] interval = "week" -> 104 * 7 * 24
      [] interval = "all"  -> 30 * 24
      [] OTHER -> 720

\* preloadAllIntervals: hoursNeeded of one iteration
preloadHoursNeeded(interval) ==
    CASE interval = "hour" -> 96
      [] interval = "day"  -> 120 * 24
      [] interval = "week" -> 104 * 7 * 24
      [] interval = "all"  -> 30 * 24
      [] OTHER -> 720

HoveredRecords ==
    {[timestamp |-> 1, status |-> "up", responseTime |-> rt, count |-> 2,
      avgResponseTime |-> avg, typeLabel |-> UndefinedLabel,
      degradedCount |-> dg, downCount |-> dn, interval |-> i] :
        rt \in {Null} \cup (0 .. MaxPing), avg \in {Null} \cup (0 .. MaxPing),
        dg \in {Null} \cup (0 .. MaxCount), dn \in {Null} \cup (0 .. MaxCount),
        i \in Intervals \cup {NoInterval}}

TooltipInputs ==
    {[fn |-> f, hovered |-> h, language |-> l] :
        f \in {"computeTooltipData", "Tooltip", "pageTooltipPing"},
        h \in {<<>>} \cup {<<r>> : r \in HoveredRecords}, l \in Languages}

\* a history of n samples of which the first up are up
UptimeHistory(n, up) == [k \in 1 .. n |-> [SampleAt(k) EXCEPT !.is_up = (k <= up)]]

UptimeInputs ==
    {[fn |-> "getUptimePercentage",
      monitor |-> [name |-> MonitorName, history |-> h]] :
        h \in {UptimeHistory(n, up) : n \in 0 .. MaxUptimeHist, up \in 0 .. MaxUptimeHist}
               \cup {[k \in 1 .. 4 |-> [SampleAt(k) EXCEPT !.is_up = (k # 3)]]}}

\* a monitor of response.data.monitors
StatusMonitor(name, isUp, responseTime, n) ==
    [name           |-> name,
     current_status |-> [is_up |-> isUp, response_time |-> responseTime],
     history        |-> History(n)]

\* the monitor lists of the status responses
StatusMonitorLists ==
    {<<>>,
     <<StatusMonitor(MonitorName, TRUE, 150, MaxLoaded - 1)>>,
     <<StatusMonitor(MonitorName, TRUE, 450, MaxLoaded)>>,
     <<StatusMonitor(MonitorName, TRUE, 150, MaxLoaded - 1),
       StatusMonitor(SecondMonitorName, FALSE, Null, MaxLoaded)>>}

\* the thresholds a configuration can carry, below and above the default
DegradedThresholds == {100, DEFAULT_DEGRADED_THRESHOLD, 300}

\* r.response_time && r.response_time * 1000 > threshold
SlowRecord(r, threshold) ==
    r.response_time # Null /\ r.response_time # 0 /\ r.response_time > threshold

\* the overall status as fetchStatus and initializeApp compute it in line
inlineOverallStatus(mons, threshold) ==
    LET hasDown == \E j \in 1 .. Len(mons) : ~mons[j].current_status.is_up
        hasDegraded ==
            \E j \in 1 .. Len(mons) :
                \E k \in 1 .. Len(mons[j].history) :
                    SlowRecord(mons[j].history[k], threshold)
    IN  IF hasDown THEN "down" ELSE IF hasDegraded THEN "degraded" ELSE "up"

\* calculateOverallStatus of lib/utils/statusUtils.ts: the loop stops at the
\* first monitor that is not up or whose current response time is over the
\* threshold; the monitors before it have set hasDegraded, which "down" hides
calculateOverallStatus(mons, threshold) ==
    LET DownAt(j) ==
            \/ ~mons[j].current_status.is_up
            \/ /\ mons[j].current_status.response_time # Null
               /\ mons[j].current_status.response_time > threshold
        hasDown == \E j \in 1 .. Len(mons) : DownAt(j)
        hasDegraded ==
            \E j \in 1 .. Len(mons) :
                /\ \A i \in 1 .. j : ~DownAt(i)
                /\ \E k \in 1 .. Len(mons[j].history) :
                      SlowRecord(mons[j].history[k], threshold)
    IN  IF Len(mons) = 0 THEN "up"
        ELSE IF hasDown THEN "down"
        ELSE IF hasDegraded THEN "degraded"
        ELSE "up"

\* getStatusIndicatorText(monitor).status with the threshold of the render
getStatusIndicatorText(monitor, threshold) ==
    IF ~monitor.current_status.is_up THEN "down"
    ELSE IF /\ Len(monitor.history) > 0
            /\ SlowRecord(monitor.history[Len(monitor.history)], threshold)
         THEN "degraded"
    ELSE "up"

\* up < degraded < down
Severity(status) ==
    CASE status = "down" -> 2 [] status = "degraded" -> 1 [] OTHER -> 0

\* monitor lists and thresholds for the overall status
OverallInputs ==
    {[fn |-> "calculateOverallStatus", monitors |-> mons, threshold |-> th] :
        mons \in StatusMonitorLists, th \in DegradedThresholds}

HoursInputs ==
    {[fn |-> f, interval |-> i] :
        f \in {"fetchAggregatedHeartbeat", "preloadAllIntervals"}, i \in Intervals}

SampleInputs ==
    {[fn |-> f, sample |-> [timestamp |-> 1, is_up |-> u, response_time |-> rt],
      threshold |-> th] :
        f \in {"classifySample", "statusUtils"}, u \in BOOLEAN,
        rt \in {Null} \cup (0 .. MaxResponseTime), th \in 0 .. MaxThreshold}

NodeInputs ==
    {[fn |-> "classifyNode",
      node |-> [down_count |-> dn, degraded_count |-> dg, issue_percentage |-> ip],
      interval |-> i, threshold |-> th] :
        dn \in 0 .. MaxCount, dg \in 0 .. MaxCount, ip \in 0 .. MaxPercentage,
        i \in Intervals, th \in 0 .. MaxPercentage}

CapacityInputs ==
    {[fn |-> "getEffectiveMaxItems", baseMax |-> b, interval |-> i] :
        b \in 10 .. MaxBase, i \in Intervals}

ViewportInputs ==
    {[fn |-> "calculateHeartbeatItems", viewportWidth |-> w] :
        w \in 0 .. MaxViewportWidth}

FunctionInit ==
    /\ \/ input \in SampleInputs
       \/ input \in NodeInputs
       \/ input \in CapacityInputs
       \/ input \in ViewportInputs
       \/ input \in TooltipInputs
       \/ input \in UptimeInputs
       \/ input \in HoursInputs
       \/ input \in OverallInputs
    /\ output = <<>>
    /\ monitors = <<>>
    /\ aggregatedHeartbeat = [k \in {} |-> <<>>]
    /\ heartbeatIntervals = [k \in {} |-> "all"]
    /\ heartbeatItemCount = calculateHeartbeatItems(NarrowViewport)
    /\ displayItems = <<>>
    /\ translateX = 0
    /\ nodeWidth = 0
    /\ lastDataLenRef = 0
    /\ measureTimer = FALSE
    /\ rafQueue = <<>>
    /\ timeouts = <<>>
    /\ growthBy = 0
    /\ degradedThreshold = DEFAULT_DEGRADED_THRESHOLD
    /\ degradedPercentageThreshold = DEFAULT_DEGRADED_PERCENTAGE_THRESHOLD
    /\ inflight = {}
    /\ overwrote = FALSE
    /\ hoveredMonitorIndex = <<>>
    /\ selectedInterval = <<>>
    /\ lastPointerEvent = [type |-> "none", item |-> <<>>]
    /\ LifeInit

FunctionFrame ==
    UNCHANGED <<monitors, aggregatedHeartbeat, heartbeatIntervals, heartbeatItemCount,
                displayItems, translateX, nodeWidth, lastDataLenRef, measureTimer,
                rafQueue, timeouts, growthBy, degradedThreshold,
                degradedPercentageThreshold, inflight, overwrote, input,
                hoveredMonitorIndex, selectedInterval, lastPointerEvent, lifeVars>>

ApplyClassifySample ==
    /\ output = <<>> /\ input.fn = "classifySample"
    /\ output' = <<classifySample(input.sample, input.threshold)>>
    /\ FunctionFrame

ApplyStatusUtilsClassify ==
    /\ output = <<>> /\ input.fn = "statusUtils"
    /\ output' = <<statusUtilsClassify(input.sample, input.threshold)>>
    /\ FunctionFrame

ApplyClassifyNode ==
    /\ output = <<>> /\ input.fn = "classifyNode"
    /\ output' = <<classifyNode(input.node, input.interval, input.threshold)>>
    /\ FunctionFrame

ApplyGetEffectiveMaxItems ==
    /\ output = <<>> /\ input.fn = "getEffectiveMaxItems"
    /\ output' = <<getEffectiveMaxItems(input.baseMax, input.interval)>>
    /\ FunctionFrame

ApplyCalculateHeartbeatItems ==
    /\ output = <<>> /\ input.fn = "calculateHeartbeatItems"
    /\ output' = <<calculateHeartbeatItems(input.viewportWidth)>>
    /\ FunctionFrame

ApplyComputeTooltipData ==
    /\ output = <<>> /\ input.fn = "computeTooltipData"
    /\ output' = <<computeTooltipData(input.hovered, input.language)>>
    /\ FunctionFrame

\* Tooltip.tsx: null when info is null, else what decides the issue breakdown
ApplyTooltipHasIssues ==
    /\ output = <<>> /\ input.fn = "Tooltip"
    /\ output' = <<IF input.hovered = <<>> THEN <<>>
                   ELSE <<[showIssues |-> hasIssues(input.hovered[1])]>> >>
    /\ FunctionFrame

\* the page's tooltip: rendered when state.hoveredMonitorIndex !== null
ApplyPageTooltipPing ==
    /\ output = <<>> /\ input.fn = "pageTooltipPing"
    /\ output' = <<IF input.hovered = <<>> THEN <<>>
                   ELSE <<[pingText |-> pageTooltipPing(input.hovered[1],
                                                        input.language)]>> >>
    /\ FunctionFrame

ApplyGetUptimePercentage ==
    /\ output = <<>> /\ input.fn = "getUptimePercentage"
    /\ output' = <<getUptimePercentage(input.monitor)>>
    /\ FunctionFrame

ApplyHoursNeeded ==
    /\ output = <<>> /\ input.fn = "fetchAggregatedHeartbeat"
    /\ output' = <<hoursNeeded(input.interval)>>
    /\ FunctionFrame

ApplyPreloadHoursNeeded ==
    /\ output = <<>> /\ input.fn = "preloadAllIntervals"
    /\ output' = <<preloadHoursNeeded(input.interval)>>
    /\ FunctionFrame

ApplyCalculateOverallStatus ==
    /\ output = <<>> /\ input.fn = "calculateOverallStatus"
    /\ output' = <<calculateOverallStatus(input.monitors, input.threshold)>>
    /\ FunctionFrame

FunctionNext ==
    \/ ApplyClassifySample
    \/ ApplyStatusUtilsClassify
    \/ ApplyClassifyNode
    \/ ApplyGetEffectiveMaxItems
    \/ ApplyCalculateHeartbeatItems
    \/ ApplyComputeTooltipData
    \/ ApplyTooltipHasIssues
    \/ ApplyPageTooltipPing
    \/ ApplyGetUptimePercentage
    \/ ApplyHoursNeeded
    \/ ApplyPreloadHoursNeeded
    \/ ApplyCalculateOverallStatus

FunctionSpec == FunctionInit /\ [][FunctionNext]_vars

----------------------------------------------------------------------------
(* Pointer events on the bar and the interval selector of the monitor:     *)
(* the hovered item of the page and the selector's own selection.          *)

IntervalSeq == <<"all", "hour", "day", "week">>

\* intervals.indexOf(selectedInterval), 1-based
IntervalIndex(i) == CHOOSE k \in 1 .. Len(IntervalSeq) : IntervalSeq[k] = i

\* the argument the bar's handleItemMouseEnter gives to onHover
handleItemMouseEnter(item, interval) ==
    <<[timestamp       |-> item.timestamp,
       status          |-> item.status,
       responseTime    |-> item.responseTime,
       count           |-> item.count,
       avgResponseTime |-> item.avgResponseTime,
       typeLabel       |-> item.typeLabel,
       degradedCount   |-> item.degradedCount,
       downCount       |-> item.downCount,
       interval        |-> interval]>>

\* the page's handleHeartbeatHover: the record given to setHoveredMonitorIndex
\* for the argument << >> (null) or <<item>>; it copies no interval
handleHeartbeatHover(arg) ==
    IF arg # <<>>
    THEN <<[timestamp       |-> arg[1].timestamp,
            status          |-> arg[1].status,
            responseTime    |-> arg[1].responseTime,
            count           |-> arg[1].count,
            avgResponseTime |-> arg[1].avgResponseTime,
            typeLabel       |-> arg[1].typeLabel,
            degradedCount   |-> arg[1].degradedCount,
            downCount       |-> arg[1].downCount,
            interval        |-> NoInterval]>>
    ELSE <<>>

\* the page's handleTooltipMouseLeave: setHoveredMonitorIndex(null)
handleTooltipMouseLeave == <<>>

\* the condition of the tooltipIssues element of the page's own tooltip
pageTooltipIssues(h) ==
    /\ h.interval # NoInterval
    /\ h.interval # "all"
    /\ \/ h.degradedCount # Null /\ h.degradedCount > 0
       \/ h.downCount # Null /\ h.downCount > 0

\* the selector of a monitor row: mounted with the row, useState("all")
SelectorAfterRender(wasMounted, isMounted, selected) ==
    IF ~isMounted THEN <<>>
    ELSE IF wasMounted THEN selected
    ELSE <<"all">>

HoverInit ==
    /\ Init
    /\ heartbeatItemCount = calculateHeartbeatItems(NarrowViewport)

\* what no pointer or selector step changes
HoverFrame ==
    UNCHANGED <<heartbeatItemCount, degradedThreshold, degradedPercentageThreshold,
                inflight, overwrote, input, output, lifeVars>>

\* fetchStatus: a status response arrives; the monitor's row, with its selector
\* and its bar, mounts or unmounts with the monitor
HoverStatusResolved ==
    \E resp \in {<<>>, <<MonitorNamed(MonitorName, MaxLoaded - 1)>>} :
        /\ monitors' = resp
        /\ selectedInterval' =
              SelectorAfterRender(Mounted, Len(resp) > 0, selectedInterval)
        /\ UNCHANGED <<aggregatedHeartbeat, heartbeatIntervals, hoveredMonitorIndex,
                       lastPointerEvent>>
        /\ HoverFrame
        /\ PageRender(nodeWidth)

\* fetchAggregatedHeartbeat: a heartbeat response of the monitor arrives
HoverHeartbeatResolved ==
    \E i \in ServedIntervals :
        /\ aggregatedHeartbeat' =
              CacheWrite(aggregatedHeartbeat, <<MonitorName, i>>,
                         NodesFor(MonitorName, i, MaxLoaded))
        /\ UNCHANGED <<monitors, heartbeatIntervals, hoveredMonitorIndex,
                       selectedInterval, lastPointerEvent>>
        /\ HoverFrame
        /\ PageRender(nodeWidth)

\* the selector's handleSelectInterval (a click on an interval button, or
\* handlePrevious / handleNext): setSelectedInterval, then onIntervalChange,
\* the page's handleHeartbeatIntervalChange
SelectInterval(interval) ==
    /\ Mounted
    /\ selectedInterval' = <<interval>>
    /\ heartbeatIntervals' =
          [k \in DOMAIN heartbeatIntervals \cup {MonitorName} |->
              IF k = MonitorName THEN interval ELSE heartbeatIntervals[k]]
    /\ UNCHANGED <<monitors, aggregatedHeartbeat, hoveredMonitorIndex, lastPointerEvent>>
    /\ HoverFrame
    /\ PageRender(nodeWidth)

\* the selector's handlePrevious
HandlePrevious ==
    /\ selectedInterval # <<>>
    /\ SelectInterval(IntervalSeq[((IntervalIndex(selectedInterval[1]) - 1 - 1
                                       + Len(IntervalSeq)) % Len(IntervalSeq)) + 1])

\* the selector's handleNext
HandleNext ==
    /\ selectedInterval # <<>>
    /\ SelectInterval(IntervalSeq[(IntervalIndex(selectedInterval[1]) % Len(IntervalSeq)) + 1])

\* mouseenter on an item of the bar: handleItemMouseEnter, then the page's
\* handleHeartbeatHover; the new record re-renders the page
HandleItemMouseEnter ==
    \E j \in 1 .. Len(displayItems) :
        LET arg == handleItemMouseEnter(displayItems[j],
                                          IntervalOf(heartbeatIntervals, MonitorName))
        IN  /\ Mounted
            /\ hoveredMonitorIndex' = handleHeartbeatHover(arg)
            /\ lastPointerEvent' = [type |-> "enter", item |-> arg]
            /\ UNCHANGED <<monitors, aggregatedHeartbeat, heartbeatIntervals,
                           selectedInterval>>
            /\ HoverFrame
            /\ PageRender(nodeWidth)

\* mousemove on the bar: handleMouseMove, the page's handleTooltipMouseMove
HandleMouseMove ==
    /\ Mounted
    /\ lastPointerEvent' = [type |-> "move", item |-> <<>>]
    /\ UNCHANGED <<monitors, aggregatedHeartbeat, heartbeatIntervals,
                   hoveredMonitorIndex, selectedInterval>>
    /\ HoverFrame
    /\ PageRender(nodeWidth)

\* mouseleave on the bar: handleMouseLeave calls onHover(null) and
\* onMouseLeave(); the page re-renders when the hovered item was not null
HandleMouseLeave ==
    /\ Mounted
    /\ hoveredMonitorIndex' =
          (LET afterHover == handleHeartbeatHover(<<>>) IN handleTooltipMouseLeave)
    /\ lastPointerEvent' = [type |-> "leave", item |-> hoveredMonitorIndex]
    /\ UNCHANGED <<monitors, aggregatedHeartbeat, heartbeatIntervals, selectedInterval>>
    /\ HoverFrame
    /\ IF hoveredMonitorIndex # <<>>
       THEN PageRender(nodeWidth)
       ELSE UNCHANGED <<displayItems, translateX, nodeWidth, lastDataLenRef,
                        measureTimer, rafQueue, timeouts, growthBy>>

\* the one-second countdown timer: setNextUpdate(prev - 1) re-renders the page,
\* and the timer effect, which depends on the state object of that render,
\* runs again and sets nextUpdate back to updateInterval (a second render);
\* the second render gives the bar the same series as the first
CountdownTick ==
    /\ Mounted
    /\ UNCHANGED <<monitors, aggregatedHeartbeat, heartbeatIntervals,
                   hoveredMonitorIndex, selectedInterval, lastPointerEvent>>
    /\ HoverFrame
    /\ PageRender(nodeWidth)

\* handleHeartbeatIntervalChange from the selector of another monitor
OtherMonitorIntervalChange ==
    \E interval \in Intervals :
        /\ Mounted
        /\ heartbeatIntervals' =
              [k \in DOMAIN heartbeatIntervals \cup {SecondMonitorName} |->
                  IF k = SecondMonitorName THEN interval ELSE heartbeatIntervals[k]]
        /\ UNCHANGED <<monitors, aggregatedHeartbeat, hoveredMonitorIndex,
                       selectedInterval, lastPointerEvent>>
        /\ HoverFrame
        /\ PageRender(nodeWidth)

HoverNext ==
    \/ HoverStatusResolved
    \/ HoverHeartbeatResolved
    \/ \E i \in Intervals : SelectInterval(i)
    \/ HandlePrevious
    \/ HandleNext
    \/ HandleItemMouseEnter
    \/ HandleMouseMove
    \/ HandleMouseLeave
    \/ MeasureTimerFire
    \/ AnimationFrame
    \/ TransitionTimeoutFire

HoverSpec == HoverInit /\ [][HoverNext]_vars

\* the page and the bar under events that re-render the page
RenderNext ==
    \/ HoverStatusResolved
    \/ HoverHeartbeatResolved
    \/ \E i \in Intervals : SelectInterval(i)
    \/ CountdownTick
    \/ HandleTooltipMouseMove
    \/ OtherMonitorIntervalChange
    \/ MeasureTimerFire
    \/ AnimationFrame
    \/ TransitionTimeoutFire

RenderSpec == HoverInit /\ [][RenderNext]_vars

----------------------------------------------------------------------------
(* The overall status, the loading screen and the polling timers of the    *)
(* page. A monitor of a status response carries its current_status here.   *)

\* INTERVAL_OPTIONS of lib/constants, in seconds
INTERVAL_OPTIONS == {5, 10, 15, 30, 45, 60}

\* a status request of fetchStatus: n is state.degradedThreshold of the render
\* whose fetchStatus was called, which the code reads when the response arrives
PollRequest(threshold) ==
    [kind |-> "status", monitor |-> "", interval |-> "", n |-> threshold]

\* the polling effect (deps [state.updateInterval, state]: state is a new
\* object in every render, so the effect runs after every render): the
\* cleanup clears both timers, setNextUpdate(updateInterval), both timers are
\* armed anew
PollingEffect(interval) ==
    /\ nextUpdate' = interval
    /\ updateIntervalId' = 0
    /\ countdownInterval' = 0

\* what the timers and the status polls leave alone
PollFrame ==
    UNCHANGED <<aggregatedHeartbeat, heartbeatIntervals, heartbeatItemCount,
                displayItems, translateX, nodeWidth, lastDataLenRef, measureTimer,
                rafQueue, timeouts, growthBy, degradedThreshold,
                degradedPercentageThreshold, overwrote, input, output,
                hoveredMonitorIndex, selectedInterval, lastPointerEvent,
                loadingProgress, showLoadingScreen, backendUnreachable,
                progressTrackerRef, initializeRef, initializeApp>>

\* the first render of the page: the polling effect runs for the first time
PollingEffectMount ==
    /\ updateIntervalId = Null
    /\ PollingEffect(updateInterval)
    /\ UNCHANGED <<monitors, inflight, updateInterval, overallStatus, lastTimer>>
    /\ PollFrame

\* handleUpdateIntervalChange from the update interval selector; the same
\* value does not render
HandleUpdateIntervalChange ==
    \E interval \in INTERVAL_OPTIONS :
        /\ updateIntervalId # Null
        /\ updateInterval' = interval
        /\ IF interval # updateInterval
           THEN PollingEffect(interval)
           ELSE UNCHANGED <<nextUpdate, updateIntervalId, countdownInterval>>
        /\ UNCHANGED <<monitors, inflight, overallStatus, lastTimer>>
        /\ PollFrame

\* one second passes. A timer callback runs no earlier than its delay and
\* later when the event loop is busy or the tab is throttled, so time may
\* pass over a timer that is due; the ages stop at the delays
SecondPasses ==
    /\ updateIntervalId # Null
    /\ updateIntervalId' = Min(updateIntervalId + 1, updateInterval)
    /\ countdownInterval' = Min(countdownInterval + 1, 1)
    /\ \/ updateIntervalId' # updateIntervalId
       \/ countdownInterval' # countdownInterval
    /\ UNCHANGED <<monitors, inflight, nextUpdate, updateInterval, overallStatus,
                   lastTimer>>
    /\ PollFrame

\* the callback of countdownInterval (1000 ms): setNextUpdate(max(0, prev - 1))
\* renders the page, the polling effect of that render re-arms both timers and
\* sets nextUpdate to updateInterval, which renders once more
CountdownIntervalFire ==
    /\ countdownInterval # Null /\ countdownInterval >= 1
    /\ LET ticked == Max(0, nextUpdate - 1)
       IN  IF ticked # nextUpdate
           THEN PollingEffect(updateInterval)
           ELSE /\ countdownInterval' = 0
                /\ UNCHANGED <<nextUpdate, updateIntervalId>>
    /\ lastTimer' = "countdown"
    /\ UNCHANGED <<monitors, inflight, updateInterval, overallStatus>>
    /\ PollFrame

\* the callback of updateIntervalId (updateInterval * 1000 ms): fetchStatus()
\* sends a status request; setNextUpdate(updateInterval) renders when the
\* value differs. Two requests of the same render are kept as one entry
UpdateIntervalFire ==
    /\ updateIntervalId # Null /\ updateIntervalId >= updateInterval
    /\ inflight' = inflight \cup {PollRequest(degradedThreshold)}
    /\ IF nextUpdate # updateInterval
       THEN PollingEffect(updateInterval)
       ELSE /\ updateIntervalId' = 0
            /\ UNCHANGED <<nextUpdate, countdownInterval>>
    /\ lastTimer' = "poll"
    /\ UNCHANGED <<monitors, updateInterval, overallStatus>>
    /\ PollFrame

\* fetchStatus: the response arrives; setMonitors, setLastUpdated and
\* setOverallStatus render the page, and the polling effect runs
PollStatusResolved ==
    \E r \in inflight, mons \in StatusMonitorLists :
        /\ r.kind = "status"
        /\ inflight' = inflight \ {r}
        /\ monitors' = mons
        /\ overallStatus' = inlineOverallStatus(mons, r.n)
        /\ IF updateIntervalId # Null
           THEN PollingEffect(updateInterval)
           ELSE UNCHANGED <<nextUpdate, updateIntervalId, countdownInterval>>
        /\ UNCHANGED <<updateInterval, lastTimer>>
        /\ PollFrame

\* a fetchStatus whose catch block marks the backend unreachable, to compare
\* against FetchStatusFailed
FetchStatusFailedUnreachable ==
    \E r \in inflight :
        /\ r.kind = "status"
        /\ inflight' = inflight \ {r}
        /\ backendUnreachable' = TRUE
        /\ UNCHANGED <<monitors, nextUpdate, updateInterval, overallStatus,
                       updateIntervalId, countdownInterval, lastTimer,
                       aggregatedHeartbeat, heartbeatIntervals, heartbeatItemCount,
                       displayItems, translateX, nodeWidth, lastDataLenRef,
                       measureTimer, rafQueue, timeouts, growthBy,
                       degradedThreshold, degradedPercentageThreshold, overwrote,
                       input, output, hoveredMonitorIndex, selectedInterval,
                       lastPointerEvent, loadingProgress, showLoadingScreen,
                       progressTrackerRef, initializeRef, initializeApp>>

\* fetchStatus: the request fails; the catch block logs, nothing renders
FetchStatusFailed ==
    \E r \in inflight :
        /\ r.kind = "status"
        /\ inflight' = inflight \ {r}
        /\ UNCHANGED <<monitors, nextUpdate, updateInterval, overallStatus,
                       updateIntervalId, countdownInterval, lastTimer>>
        /\ PollFrame

PollNext ==
    \/ PollingEffectMount
    \/ HandleUpdateIntervalChange
    \/ SecondPasses
    \/ CountdownIntervalFire
    \/ UpdateIntervalFire
    \/ PollStatusResolved
    \/ FetchStatusFailed

PollInit ==
    /\ Init
    /\ heartbeatItemCount = calculateHeartbeatItems(NarrowViewport)

PollSpec == PollInit /\ [][PollNext]_vars

\* timers whose delay has passed run, time passes, requests settle
FairPollSpec ==
    /\ PollSpec
    /\ WF_vars(PollingEffectMount)
    /\ WF_vars(SecondPasses)
    /\ WF_vars(CountdownIntervalFire)
    /\ WF_vars(UpdateIntervalFire)
    /\ WF_vars(PollStatusResolved \/ FetchStatusFailed)

----------------------------------------------------------------------------
(* initializeApp, the preload and the status polls. When the poll timer    *)
(* runs is followed in PollSpec; here its fetchStatus call is a step that   *)
(* can be taken at any time after the mount, and the timers stay unarmed.   *)
(* The requests of the heartbeat effect are followed in LoaderSpec.         *)

\* configuration of a config response, with a threshold under the default
StartupConfigResponses ==
    ConfigResponses \cup
        {[degraded_threshold |-> 100, degraded_percentage_threshold |-> Null]}

\* the config request of fetchConfig
ConfigRequest == [kind |-> "config", monitor |-> "", interval |-> "", n |-> 0]

\* the requests of preloadAllIntervals: one per monitor and interval
PreloadRequests(mons) ==
    {[kind |-> "preload", monitor |-> mons[j].name, interval |-> i, n |-> MaxLoaded] :
        j \in 1 .. Len(mons), i \in Intervals}

AllPreloadRequests ==
    {[kind |-> "preload", monitor |-> m, interval |-> i, n |-> MaxLoaded] :
        m \in LoaderMonitorNames, i \in Intervals}

\* a Promise.all that waits for every request in flight, the unawaited config
\* request and the polls as well, to compare against PreloadInflight
PreloadInflightWithOthers(reqs) == reqs

\* the preload requests that have not settled: what Promise.all waits for
PreloadInflight(reqs) == {r \in reqs : r.kind = "preload"}

\* updateProgressByTaskCompletion: the tracker after the increment, and the
\* progress it sets. totalTasks is 4 or 8 here, so completedTasks /
\* totalTasks * 80 is a whole number, in double precision as well.
\* A tracker that counts a completion twice, to compare against
\* TrackerAfterCompletion:
TrackerCountsTwice(tracker) ==
    [tracker EXCEPT !.completedTasks = @ + 2]

TrackerAfterCompletion(tracker) ==
    [tracker EXCEPT !.completedTasks = @ + 1]

ProgressAfterCompletion(tracker, progress) ==
    LET after == TrackerAfterCompletion(tracker)
    IN  IF after.totalTasks > 0
        THEN 20 + (after.completedTasks * 80) \div after.totalTasks
        ELSE progress

\* what initializeApp, the preload and fetchConfig leave alone
StartupFrame ==
    UNCHANGED <<heartbeatIntervals, heartbeatItemCount, displayItems, translateX,
                nodeWidth, lastDataLenRef, measureTimer, rafQueue, timeouts,
                growthBy, overwrote, input, output, hoveredMonitorIndex,
                selectedInterval, lastPointerEvent, nextUpdate, updateInterval,
                updateIntervalId, countdownInterval, lastTimer>>

\* the mount effect calls initializeApp; a second call (the effect of a
\* development double mount) returns at the initializeRef guard
InitializeApp ==
    /\ IF initializeRef
       THEN UNCHANGED <<initializeRef, loadingProgress, initializeApp>>
       ELSE /\ initializeRef' = TRUE
            /\ loadingProgress' = 0
            /\ initializeApp' = "probe"
    /\ UNCHANGED <<monitors, aggregatedHeartbeat, degradedThreshold,
                   degradedPercentageThreshold, inflight, showLoadingScreen,
                   backendUnreachable, overallStatus, progressTrackerRef>>
    /\ StartupFrame

\* the probe request succeeds: setBackendUnreachable(false), fetchConfig() is
\* called and not awaited, setLoadingProgress(20), the status request is sent
ProbeResolved ==
    /\ initializeApp = "probe"
    /\ backendUnreachable' = FALSE
    /\ inflight' = inflight \cup {ConfigRequest}
    /\ loadingProgress' = 20
    /\ initializeApp' = "status"
    /\ UNCHANGED <<monitors, aggregatedHeartbeat, degradedThreshold,
                   degradedPercentageThreshold, showLoadingScreen, overallStatus,
                   progressTrackerRef, initializeRef>>
    /\ StartupFrame

\* the probe or the first status request fails: the catch block of
\* initializeApp
InitialRequestFailed ==
    /\ initializeApp \in {"probe", "status"}
    /\ backendUnreachable' = TRUE
    /\ showLoadingScreen' = FALSE
    /\ initializeApp' = "unreachable"
    /\ UNCHANGED <<monitors, aggregatedHeartbeat, degradedThreshold,
                   degradedPercentageThreshold, inflight, loadingProgress,
                   overallStatus, progressTrackerRef, initializeRef>>
    /\ StartupFrame

\* the first status response arrives. initializeApp is the closure of the
\* first render, whose state.degradedThreshold is the initial one. With
\* monitors, preloadAllIntervals sets the tracker and sends its requests;
\* without, the loading screen is dismissed
InitialStatusResolved ==
    \E fetchedMonitors \in StatusMonitorLists :
        /\ initializeApp = "status"
        /\ monitors' = fetchedMonitors
        /\ overallStatus' =
              inlineOverallStatus(fetchedMonitors, DEFAULT_DEGRADED_THRESHOLD)
        /\ IF Len(fetchedMonitors) > 0
           THEN /\ progressTrackerRef' =
                      [totalTasks     |-> Len(fetchedMonitors) * Cardinality(Intervals),
                       completedTasks |-> 0]
                /\ inflight' = inflight \cup PreloadRequests(fetchedMonitors)
                /\ initializeApp' = "preload"
                /\ UNCHANGED <<loadingProgress, showLoadingScreen>>
           ELSE /\ loadingProgress' = 100
                /\ showLoadingScreen' = FALSE
                /\ initializeApp' = "done"
                /\ UNCHANGED <<progressTrackerRef, inflight>>
        /\ UNCHANGED <<aggregatedHeartbeat, degradedThreshold,
                       degradedPercentageThreshold, backendUnreachable,
                       initializeRef>>
        /\ StartupFrame

\* a preload request settles: the cache write on success, the catch block on
\* failure, updateProgressByTaskCompletion in the finally block. After the
\* last one Promise.all resolves and initializeApp goes on:
\* setLoadingProgress(100), setShowLoadingScreen(false)
PreloadSettled(r, succeeded) ==
    /\ r \in inflight /\ r.kind = "preload"
    /\ succeeded => r.interval \in ServedIntervals
    /\ inflight' = inflight \ {r}
    /\ aggregatedHeartbeat' =
          IF succeeded
          THEN CacheWrite(aggregatedHeartbeat, KeyOf(r), PayloadOf(r))
          ELSE aggregatedHeartbeat
    /\ progressTrackerRef' = TrackerAfterCompletion(progressTrackerRef)
    /\ IF PreloadInflight(inflight) = {r}
       THEN /\ loadingProgress' = 100
            /\ showLoadingScreen' = FALSE
            /\ initializeApp' = "done"
       ELSE /\ loadingProgress' =
                  ProgressAfterCompletion(progressTrackerRef, loadingProgress)
            /\ UNCHANGED <<showLoadingScreen, initializeApp>>
    /\ UNCHANGED <<monitors, degradedThreshold, degradedPercentageThreshold,
                   backendUnreachable, overallStatus, initializeRef>>
    /\ StartupFrame

PreloadResolved(r) == PreloadSettled(r, TRUE)

PreloadFailed(r) == PreloadSettled(r, FALSE)

\* fetchConfig: the config response arrives, or the request fails
StartupConfigSettled ==
    /\ ConfigRequest \in inflight
    /\ inflight' = inflight \ {ConfigRequest}
    /\ \/ \E c \in StartupConfigResponses :
             /\ degradedThreshold' =
                   IF c.degraded_threshold # Null /\ c.degraded_threshold # 0
                   THEN c.degraded_threshold ELSE degradedThreshold
             /\ degradedPercentageThreshold' =
                   IF c.degraded_percentage_threshold # Null
                   THEN c.degraded_percentage_threshold
                   ELSE degradedPercentageThreshold
       \/ UNCHANGED <<degradedThreshold, degradedPercentageThreshold>>
    /\ UNCHANGED <<monitors, aggregatedHeartbeat, loadingProgress,
                   showLoadingScreen, backendUnreachable, overallStatus,
                   progressTrackerRef, initializeRef, initializeApp>>
    /\ StartupFrame

\* the callback of the poll timer calls fetchStatus of the last render
PollFetchStatus ==
    /\ initializeRef
    /\ inflight' = inflight \cup {PollRequest(degradedThreshold)}
    /\ UNCHANGED <<monitors, aggregatedHeartbeat, degradedThreshold,
                   degradedPercentageThreshold, loadingProgress,
                   showLoadingScreen, backendUnreachable, overallStatus,
                   progressTrackerRef, initializeRef, initializeApp>>
    /\ StartupFrame

StartupNext ==
    \/ InitializeApp
    \/ ProbeResolved
    \/ InitialRequestFailed
    \/ InitialStatusResolved
    \/ \E r \in inflight : PreloadResolved(r)
    \/ \E r \in inflight : PreloadFailed(r)
    \/ StartupConfigSettled
    \/ PollFetchStatus
    \/ PollStatusResolved
    \/ FetchStatusFailed

StartupSpec == PollInit /\ [][StartupNext]_vars

\* the mount effect runs and every request that was sent settles
FairStartupSpec ==
    /\ StartupSpec
    /\ WF_vars(InitializeApp)
    /\ WF_vars(ProbeResolved \/ InitialRequestFailed \/ InitialStatusResolved)
    /\ \A r \in AllPreloadRequests :
          WF_vars(PreloadResolved(r) \/ PreloadFailed(r))

----------------------------------------------------------------------------
(* Properties, one per claim.                                              *)

\* the props of the bar's last render (every change of the page state renders)
PropsNow == BarProps(monitors, aggregatedHeartbeat, heartbeatIntervals,
                     heartbeatItemCount, degradedThreshold,
                     degradedPercentageThreshold)
SeriesLen == Len(PropsNow.data)
Capacity == effectiveMaxItems(PropsNow)
LastOfSeries == BarItems(PropsNow)

LiveRafPending == \E k \in 1 .. Len(rafQueue) : rafQueue[k].live
LiveTimers == {k \in 1 .. Len(timeouts) : timeouts[k].live}
AtRest == ~LiveRafPending /\ LiveTimers = {}

\* C1 (as claimed): after a growth by exactly one item, once the slide-then-trim
\* cycle has run (nothing of the bar is pending any more), the window holds
\* as many items as the effective capacity allows and the offset is 0.
C1_CycleEndsAtCapacity ==
    (Mounted /\ growthBy = 1 /\ AtRest) =>
        (Len(displayItems) = Min(SeriesLen, Capacity) /\ translateX = 0)

\* C2 (as claimed): in every reachable state at most one trim timer of the
\* bar is outstanding.
C2_AtMostOneTrimTimer == Cardinality(LiveTimers) <= 1

\* C3 (as claimed): a data pass in which the series grows by more than one
\* item replaces the window without animation: nothing is queued that
\* schedules a trim, no trim timer is added, the offset is 0 and the window
\* is the last effective-capacity items of the new series.
C3_BatchGrowthReplaces ==
    [][(Mounted /\ Mounted' /\ SeriesLen' > SeriesLen + 1) =>
          (/\ rafQueue' = rafQueue
           /\ Len(timeouts') <= Len(timeouts)
           /\ translateX' = 0
           /\ displayItems' = LastOfSeries')]_vars

\* C4 (as claimed): from a data pass that replaced the window (shrink or
\* same length) until the next data pass, the window is the last
\* effective-capacity items of the series and the offset is 0, also while a
\* trim timer of an earlier growth is pending.
C4_ReplacedWindowStays ==
    (Mounted /\ growthBy = 0) => (displayItems = LastOfSeries /\ translateX = 0)

\* C5 (as claimed): switching the monitor's interval never queues an
\* animation-frame callback or a trim timer; the window becomes the last
\* effective-capacity items of the new interval's series and the offset 0.
C5_IntervalSwitchReplaces ==
    [][(Mounted /\ HandleHeartbeatIntervalChange
          /\ PropsNow'.interval # PropsNow.interval) =>
          (/\ rafQueue' = rafQueue
           /\ Len(timeouts') <= Len(timeouts)
           /\ translateX' = 0
           /\ displayItems' = LastOfSeries')]_vars

\* C6 (as claimed): no trim callback of an unmounted bar runs: every timer
\* that fires belongs to the mounted bar instance.
C6_NoTrimAfterUnmount ==
    [][TransitionTimeoutFire => Head(timeouts).live]_vars

\* C7 (as claimed): a viewport resize queues no animation-frame callback and
\* no trim timer and leaves the offset alone.
C7_ResizeStartsNoSlide ==
    [][Resize => (/\ rafQueue' = rafQueue
                  /\ timeouts' = timeouts
                  /\ translateX' = translateX)]_vars

C9_TrimWithoutMeasurement ==
    [][/\ (AnimationFrame /\ Head(rafQueue).live /\ Head(rafQueue).nodeWidth = 0) =>
            (/\ Len(timeouts') = Len(timeouts) + 1
             /\ timeouts'[Len(timeouts')].live
             /\ translateX = 0 => translateX' = 0)
       /\ (TransitionTimeoutFire /\ Head(timeouts).live /\ nodeWidth = 0) =>
            (/\ Len(displayItems) > 0 => displayItems' = Tail(displayItems)
             /\ translateX' = 0)]_vars

\* C9 witness: a growth was trimmed without any measurement: the window of a
\* bar at rest has lost its head item, the width is 0 and the offset is 0.
C9_Witness ==
    /\ Mounted /\ growthBy >= 1 /\ AtRest
    /\ nodeWidth = 0 /\ translateX = 0
    /\ displayItems = Tail(LastOfSeries)

\* C10 (as claimed): once the bar has rendered at least one item and its
\* measurement timer has fired, the stored item width is positive.
C10_MeasuredWidthPositive ==
    (Mounted /\ ~measureTimer /\ Len(displayItems) > 0) => nodeWidth > 0

\* the display series of the j-th monitor of the page
SeriesOfMonitor(j) ==
    BarProps(<<monitors[j]>>, aggregatedHeartbeat, heartbeatIntervals,
             heartbeatItemCount, degradedThreshold, degradedPercentageThreshold)

AllKeys == LoaderMonitorNames \X Intervals

\* C11: when the response of a heartbeat request is written, its key holds
\* exactly that response and the entry of every other key is what it was
\* before, in whatever order the requests complete; every entry of the cache
\* is empty or a response to a request for its own key.
C11_DistinctKeysIndependent ==
    [][\A r \in inflight :
          HeartbeatFetchResolved(r) =>
             /\ KeyOf(r) \in DOMAIN aggregatedHeartbeat'
             /\ aggregatedHeartbeat'[KeyOf(r)] = PayloadOf(r)
             /\ \A k \in DOMAIN aggregatedHeartbeat \ {KeyOf(r)} :
                   /\ k \in DOMAIN aggregatedHeartbeat'
                   /\ aggregatedHeartbeat'[k] = aggregatedHeartbeat[k]
             /\ \A k \in DOMAIN aggregatedHeartbeat' :
                   \/ aggregatedHeartbeat'[k] = <<>>
                   \/ \E n \in LoaderNodeLens :
                         aggregatedHeartbeat'[k] = NodesFor(k[1], k[2], n)]_vars

\* C11 witness: requests for keys of different monitors and intervals have all
\* completed and at least three keys hold the response of their own request.
C11_Witness ==
    /\ inflight = {}
    /\ Cardinality({k \in DOMAIN aggregatedHeartbeat :
                       \E n \in LoaderNodeLens :
                          aggregatedHeartbeat[k] = NodesFor(k[1], k[2], n)}) >= 3

\* C12: a response written for a key that already holds a bucket sequence
\* replaces it whole: afterwards the entry is the new response, item for item
\* and of the new response's length, with nothing of the earlier one merged in.
C12_LaterResultReplaces ==
    [][\A r \in inflight :
          (/\ HeartbeatFetchResolved(r)
           /\ KeyOf(r) \in DOMAIN aggregatedHeartbeat
           /\ Len(aggregatedHeartbeat[KeyOf(r)]) > 0) =>
             /\ Len(aggregatedHeartbeat'[KeyOf(r)]) = r.n
             /\ \A k \in 1 .. r.n :
                   aggregatedHeartbeat'[KeyOf(r)][k] = NodeAt(r.interval, k)
                      \/ aggregatedHeartbeat'[KeyOf(r)][k].timestamp
                            = NodeAt(r.interval, k).timestamp + 1000]_vars

\* C12 witness: the only key written so far holds a response that replaced a
\* different sequence of that key.
C12_Witness ==
    /\ overwrote
    /\ Cardinality(DOMAIN aggregatedHeartbeat) = 1
    /\ \A k \in DOMAIN aggregatedHeartbeat : Len(aggregatedHeartbeat[k]) > 0

\* C13 (as claimed): a step in which a heartbeat, status or config request
\* fails leaves the monitor list, the thresholds and the bucket sequence of
\* every key as they were, and with them every monitor's display series.
C13_FailureChangesNothing ==
    [][(\E r \in inflight : FetchFailed(r) \/ LoaderHeartbeatFetchFailed(r)) =>
          (/\ monitors' = monitors
           /\ degradedThreshold' = degradedThreshold
           /\ degradedPercentageThreshold' = degradedPercentageThreshold
           /\ \A k \in AllKeys :
                 NodesOf(aggregatedHeartbeat', k[1], k[2])
                    = NodesOf(aggregatedHeartbeat, k[1], k[2])
           /\ \A j \in 1 .. Len(monitors) :
                 SeriesOfMonitor(j)' = SeriesOfMonitor(j))]_vars

\* C14 (as claimed): the four arrays of a monitor's display series have the
\* same length, and on the bucket path entry i of each is taken from bucket i.
C14_SeriesArraysAligned ==
    Mounted =>
        LET p == PropsNow
            nodes == NodesOf(aggregatedHeartbeat, monitors[1].name, p.interval)
        IN  /\ Len(p.timestamps) = Len(p.data)
            /\ Len(p.responseTimes) = Len(p.data)
            /\ Len(p.metadata) = Len(p.data)
            /\ Len(nodes) > 0 =>
                  \A k \in 1 .. Len(p.data) :
                      /\ p.timestamps[k] = nodes[k].timestamp
                      /\ p.responseTimes[k] = nodes[k].avg_response_time
                      /\ p.metadata[k].count = nodes[k].count

\* C15 (as claimed): the display series is the cached bucket sequence of
\* (monitor, selected interval) when that entry is present and non-empty, and
\* otherwise the last N samples of the raw history, classified by the sample
\* rule, each with a metadata entry of count 1.
C15_CacheOrFallback ==
    Mounted =>
        LET p == PropsNow
            m == monitors[1]
            key == <<m.name, p.interval>>
            cached == key \in DOMAIN aggregatedHeartbeat
                        /\ Len(aggregatedHeartbeat[key]) > 0
            h == m.history
            first == Max(0, Len(h) - heartbeatItemCount)
        IN  IF cached
            THEN /\ Len(p.data) = Len(aggregatedHeartbeat[key])
                 /\ \A k \in 1 .. Len(p.data) :
                       /\ p.timestamps[k] = aggregatedHeartbeat[key][k].timestamp
                       /\ p.metadata[k].count = aggregatedHeartbeat[key][k].count
            ELSE /\ Len(p.data) = Len(h) - first
                 /\ Len(p.metadata) = Len(p.data)
                 /\ \A k \in 1 .. Len(p.data) :
                       /\ p.data[k] = classifySample(h[first + k], degradedThreshold)
                       /\ p.timestamps[k] = h[first + k].timestamp
                       /\ p.metadata[k].count = 1

Applied(fn) == input.fn = fn /\ output # <<>>

\* C16: a bucket is down when down_count > 0; otherwise degraded exactly when
\* (interval all and degraded_count > 0) or (interval hour, day or week and
\* issue_percentage > the percentage threshold); otherwise up.
C16_BucketClassification ==
    Applied("classifyNode") =>
        LET nd == input.node
            degraded ==
                \/ input.interval = "all" /\ nd.degraded_count > 0
                \/ input.interval \in {"hour", "day", "week"}
                     /\ nd.issue_percentage > input.threshold
        IN  output[1] = IF nd.down_count > 0 THEN "down"
                        ELSE IF degraded THEN "degraded" ELSE "up"

\* C16 witness: down_count 0, degraded_count 2, issue_percentage 5 at interval
\* day with threshold 10 has been classified up.
C16_Witness ==
    /\ Applied("classifyNode")
    /\ input.node.down_count = 0 /\ input.node.degraded_count = 2
    /\ input.node.issue_percentage = 5 /\ input.interval = "day"
    /\ input.threshold = 10
    /\ output = <<"up">>

C18_CapacityByFactor ==
    Applied("getEffectiveMaxItems") =>
        output[1] = CASE input.interval = "all"  -> input.baseMax
                      [] input.interval = "hour" -> (input.baseMax * 800) \div 1000
                      [] input.interval = "day"  -> (input.baseMax * 667) \div 1000
                      [] input.interval = "week" -> (input.baseMax * 571) \div 1000

\* C18 (amended): the effective capacity q is floor(base / d) with d = 1 for
\* all, 1.25 for hour, 1.5 for day and 1.75 for week: q * d <= base < (q + 1) * d;
\* base 100 at week gives 57.
C18_CapacityByDivisor ==
    Applied("getEffectiveMaxItems") =>
        LET q == output[1]
            b == input.baseMax
            d100 == CASE input.interval = "all"  -> 100
                      [] input.interval = "hour" -> 125
                      [] input.interval = "day"  -> 150
                      [] input.interval = "week" -> 175
        IN  /\ q * d100 <= b * 100
            /\ b * 100 < (q + 1) * d100
            /\ (b = 100 /\ input.interval = "week") => q = 57

\* C18 witness: base 14 at week has been scaled to 8 (floor(14 * 0.571) is 7).
C18_Witness ==
    /\ Applied("getEffectiveMaxItems")
    /\ input.baseMax = 14 /\ input.interval = "week"
    /\ output = <<8>>

\* C19 (as claimed): the base capacity of a viewport width w is
\* max(10, floor(min(w * 0.175, 800) / 4)); it lies in 10 .. 200, does not
\* decrease with w, and every interval's effective capacity of it is >= 1.
C19_BaseCapacityFormula ==
    Applied("calculateHeartbeatItems") =>
        LET w == input.viewportWidth
        IN  /\ output[1] = Max(10, Min(w * 175, 800000) \div 4000)
            /\ output[1] \in 10 .. 200
            /\ calculateHeartbeatItems(w + 1) >= output[1]
            /\ \A i \in Intervals : getEffectiveMaxItems(output[1], i) >= 1

\* the hovered item of a tooltip function that has run on a hovered item
TooltipApplied(fn) == Applied(fn) /\ input.hovered # <<>>

\* C21: show_issues is true exactly when the hovered item's interval is hour,
\* day or week and degraded_count > 0 or down_count > 0; it is false at
\* interval all whatever the counts.
C21_ShowIssues ==
    (TooltipApplied("computeTooltipData") \/ TooltipApplied("Tooltip")) =>
        LET h == input.hovered[1]
        IN  /\ output[1][1].showIssues =
                  (h.interval \in {"hour", "day", "week"}
                      /\ (h.degradedCount > 0 \/ h.downCount > 0))
            /\ h.interval = "all" => ~output[1][1].showIssues

\* C21 witness: an item hovered at interval week with down_count 1 and no
\* degraded samples has been composed with show_issues true.
C21_Witness ==
    /\ TooltipApplied("computeTooltipData")
    /\ input.hovered[1].interval = "week"
    /\ input.hovered[1].downCount = 1 /\ input.hovered[1].degradedCount = 0
    /\ output[1][1].showIssues

C24_UptimePercentage ==
    Applied("getUptimePercentage") =>
        LET h  == input.monitor.history
            up == Cardinality({k \in 1 .. Len(h) : h[k].is_up})
        IN  /\ Len(h) = 0 => output[1] = 1000
            /\ Len(h) > 0 => output[1] = RoundHalfUp(up * 1000, Len(h))
            /\ output[1] \in 0 .. 1000
            /\ (Len(h) = 4 /\ up = 3) => output[1] = 750

\* C25: a heartbeat request asks for 720 hours at interval all, 96 at hour,
\* 2880 at day and 17472 at week, on the preload path and on the on-demand
\* path alike.
C25_HoursRequested ==
    (Applied("fetchAggregatedHeartbeat") \/ Applied("preloadAllIntervals")) =>
        /\ output[1] = CASE input.interval = "all"  -> 720
                         [] input.interval = "hour" -> 96
                         [] input.interval = "day"  -> 2880
                         [] input.interval = "week" -> 17472
        /\ hoursNeeded(input.interval) = preloadHoursNeeded(input.interval)

\* C25 witness: the on-demand path has computed the 17472 hours of a week
\* request.
C25_Witness ==
    /\ Applied("fetchAggregatedHeartbeat")
    /\ input.interval = "week"
    /\ output = <<17472>>

\* C23: the tooltip data is null exactly when no item is hovered, for every
\* language, and after a mouse-leave from the bar the hovered item is null: the
\* tooltip is hidden whatever enter, move and leave events came before.
C23_TooltipHiddenAfterLeave ==
    /\ \A l \in Languages :
          (computeTooltipData(hoveredMonitorIndex, l) = <<>>)
              <=> (hoveredMonitorIndex = <<>>)
    /\ lastPointerEvent.type = "leave" =>
          /\ hoveredMonitorIndex = <<>>
          /\ \A l \in Languages : computeTooltipData(hoveredMonitorIndex, l) = <<>>

\* C23 witness: the pointer has left the bar of a mounted monitor while an
\* item was hovered, and no item is hovered any more.
C23_Witness ==
    /\ Mounted /\ Len(displayItems) > 0
    /\ lastPointerEvent.type = "leave"
    /\ lastPointerEvent.item # <<>>
    /\ hoveredMonitorIndex = <<>>

\* C26 (as claimed): while the item last entered belongs to a bar at interval
\* hour, day or week and has degraded_count or down_count > 0, the hovered-item
\* record of the page keeps the bar's interval and the tooltip built from it
\* shows the issue breakdown.
C26_HoveredItemKeepsInterval ==
    (/\ lastPointerEvent.type = "enter"
     /\ lastPointerEvent.item[1].interval \in {"hour", "day", "week"}
     /\ \/ lastPointerEvent.item[1].degradedCount > 0
        \/ lastPointerEvent.item[1].downCount > 0)
    => /\ hoveredMonitorIndex # <<>>
       /\ hoveredMonitorIndex[1].interval = lastPointerEvent.item[1].interval
       /\ pageTooltipIssues(hoveredMonitorIndex[1])
       /\ computeTooltipData(hoveredMonitorIndex, "en")[1].showIssues

\* C27 (as claimed): the growth baseline of a mounted bar, lastDataLenRef,
\* equals the length of the series of the bar's last data pass in every
\* reachable state, after a shrink and a replace as well as after a growth.
C27_BaselineIsLastLength ==
    Mounted => lastDataLenRef = Len(PropsNow.data)

\* C28: a non-empty window is a contiguous suffix of the series last handed to
\* the bar: it ends with the newest item of the series and skips, reorders and
\* repeats none.
C28_WindowIsSuffix ==
    (Mounted /\ Len(displayItems) > 0) =>
        LET full == BarItemsUnbounded(PropsNow)
            n    == Len(displayItems)
        IN  /\ n <= Len(full)
            /\ displayItems = SubSeq(full, Len(full) - n + 1, Len(full))
            /\ displayItems[n] = full[Len(full)]

\* C28 witness: the series is longer than the capacity and the window, cut to
\* the capacity and trimmed by the timer, is shorter than the capacity.
C28_Witness ==
    /\ Mounted /\ Len(displayItems) > 0
    /\ Len(PropsNow.data) > effectiveMaxItems(PropsNow)
    /\ Len(displayItems) < effectiveMaxItems(PropsNow)

\* C29 (as claimed): the countdown tick, a tooltip mouse-move and another
\* monitor's interval change leave the window and the offset of the bar
\* unchanged.
C29_RenderOnlyEventsKeepWindow ==
    [][(CountdownTick \/ HandleTooltipMouseMove \/ OtherMonitorIntervalChange)
          => UNCHANGED <<displayItems, translateX>>]_vars

\* C30 (as claimed): while the monitor is mounted, the interval its selector
\* highlights is the interval the page selects its series with,
\* heartbeatIntervals[monitor.name] or all.
C30_SelectorShowsPageInterval ==
    Mounted => selectedInterval = <<IntervalOf(heartbeatIntervals, MonitorName)>>

\* C20: the window of a mounted bar never holds more items than the effective
\* capacity of the bar's interval and the page's base capacity, after every
\* data pass, animation frame, timer and resize.
C20_WindowWithinCapacity ==
    Mounted => Len(displayItems) <= Capacity

\* C20 witness: a series longer than the capacity is shown in a window of
\* exactly the capacity.
C20_Witness ==
    Mounted /\ SeriesLen > Capacity /\ Len(displayItems) = Capacity

\* C31 (as claimed): while the page is mounted with an update interval that is
\* no longer changed, the status poll keeps firing, the callback of the poll
\* timer runs again and again in every execution in which time passes and due
\* timers run, and nextUpdate stays between 0 and the update interval.
C31_PollKeepsFiring ==
    /\ [](nextUpdate \in 0 .. updateInterval)
    /\ (<>[][updateInterval' = updateInterval]_vars)
          => []<><<UpdateIntervalFire>>_vars

\* C32: in every execution in which the mount effect runs and each request
\* eventually succeeds or fails, the loading screen is eventually dismissed and
\* stays dismissed: showLoadingScreen becomes false when the backend is
\* unreachable, returns no monitors, or preload requests fail.
C32_LoadingScreenDismissed ==
    <>[](showLoadingScreen = FALSE)

\* C32 witness: the loading screen is dismissed after a preload in which
\* every request has failed (nothing was written to the cache).
C32_Witness ==
    /\ initializeApp = "done"
    /\ showLoadingScreen = FALSE
    /\ progressTrackerRef.totalTasks > 0
    /\ progressTrackerRef.completedTasks = progressTrackerRef.totalTasks
    /\ DOMAIN aggregatedHeartbeat = {}

C34_UnreachableIsFinal ==
    [][/\ (~backendUnreachable /\ backendUnreachable') =>
             (initializeApp \in {"probe", "status"} /\ initializeApp' = "unreachable")
       /\ backendUnreachable => backendUnreachable']_vars

\* C34 witness: the backend was found unreachable and a later status poll has
\* succeeded and delivered monitors.
C34_Witness ==
    /\ backendUnreachable
    /\ initializeApp = "unreachable"
    /\ Len(monitors) > 0

\* the overall status is at least as severe as the indicator of every monitor
\* of the list, with the threshold the page renders with
OverallCoversIndicators ==
    \A j \in 1 .. Len(monitors) :
        Severity(overallStatus)
            >= Severity(getStatusIndicatorText(monitors[j], degradedThreshold))

\* C35 (as claimed): after every status refresh, by initializeApp or by a poll,
\* the overall status is at least as severe as the indicator of every monitor
\* of the list it was computed for, wherever the config response falls between
\* the status requests and responses and whatever threshold it carries.
C35_OverallAtLeastIndicators ==
    [][(InitialStatusResolved \/ PollStatusResolved)
          => OverallCoversIndicators']_vars

\* C36 (as claimed): calculateOverallStatus returns what the page's inline rule
\* returns, for every monitor list and threshold.
C36_OverallStatusAgree ==
    Applied("calculateOverallStatus") =>
        output[1] = inlineOverallStatus(input.monitors, input.threshold)

====
